---- MODULE Spec2Model ----
(***************************************************************************)
(* A model of the gungame server's per-lobby engine: one lobby, its        *)
(* command queue, the tick loop of tick/lobby_tick.rs, the gameplay rules  *)
(* of domain/logic.rs, the membership rules of domain/lobbies.rs, the HTTP *)
(* join of handlers/http.rs and the direct-mutation UDP handlers of        *)
(* handlers/udp.rs; around it the lobby registry with the create calls of  *)
(* server.rs and the global stats of state/global_stats.rs.                *)
(*                                                                         *)
(* Time is counted in quarter seconds (UnitsPerSec units per second) since *)
(* the server start; a SystemTime is the integer number of units.  Every   *)
(* duration the code compares (1/fire_rate, reload_time, 3 s respawn,      *)
(* whole seconds of inactivity) is a whole number of units or is truncated *)
(* to whole seconds exactly as the code truncates it.  A tick's body is    *)
(* short against a unit: the clock advances only while the tick task waits *)
(* on its timer.                                                           *)
(***************************************************************************)
EXTENDS Integers, Sequences, FiniteSets, TLC

VARIABLES
    now,            \* SystemTime::now(), in units
    lobby,          \* the Lobby behind Arc<RwLock<Lobby>>
    queue,          \* the lobby's mpsc channel (commands in flight)
    pc,             \* position of the tick task: "timer", "dispatch", "end"
    batch,          \* `commands`: drained commands not yet dispatched
    players_left,   \* tick-local Vec players_left
    respawn_events, \* tick-local Vec respawn_events
    next_player_id, \* ServerState's player id counter
    shot_log,       \* history: per player, times of its last successful shots
    players_joined, \* tick-local Vec players_joined (ids)
    position_updates, \* tick-local Vec position_updates
    outbox,         \* history: the datagrams this tick handed to send_to
                    \* (welcome, udp_connected, player_list, player_joined,
                    \* player_left, position_update)
    write_guard,    \* the tick task holds lobby.write()
    read_guards,    \* number of lobby.read() guards held by readers
    lobbies,        \* ServerState's registry: lobby code -> LobbyHandle,
                    \* a handle named by the create call that built it
    tick_tasks,     \* the tick tasks spawned so far: <<code, create call>>
    creators,       \* the create calls in flight: position and lobby code
    global_stats,   \* ServerState's GlobalStats: player id -> totals
    player_lobbies, \* ServerState's routing index: player id -> lobby code
    recorders,      \* the record_session calls of other lobbies' tick tasks:
                    \* position, arguments and the totals the call found
    shard_lock      \* the holder of the shard lock of the stats map, if any

tick_out == <<players_joined, position_updates, outbox>>
guards == <<write_guard, read_guards>>

stats_calls == <<recorders, shard_lock>>
registry == <<lobbies, tick_tasks, creators, player_lobbies, stats_calls>>

vars == <<now, lobby, queue, pc, batch, players_left, respawn_events,
          next_player_id, shot_log, tick_out, guards, registry,
          global_stats>>

----------------------------------------------------------------------------
(* Bounds of the model *)

\* sessions a player may have on record before producers stop sending
MaxSessions == 1

\* tick tasks of other lobbies that record sessions at the same time
MaxRecorders == 3
Recorders == 1 .. MaxRecorders

\* concurrent create calls
MaxCreators == 3
Creators == 1 .. MaxCreators

\* the lobby under study, the create call that built it, and the code of
\* a lobby that does not exist yet
MAIN_CODE == "MAIN"
MAIN_TASK == 0
NEW_CODE == "NEW"
Codes == {MAIN_CODE, NEW_CODE}

\* capacity of the lobby under study (the max_players given to Lobby::new)
MaxPlayers == 2
\* commands that may wait in the channel at once
MaxQueue == 2
\* HTTP joins over a run (caps next_player_id)
MaxHttpJoins == 2
\* horizon of the clock in the combat specification, in units
CombatHorizon == 9
\* horizon of the clock in the kill specification, in units
KillHorizon == 13
\* horizon of the clock in the membership specification, in units
IdleHorizon == 64
\* kills a player may be credited with over a run
MaxKills == 1
\* the kills of one player in the scoring scenario
MaxStreak == 7
\* the commands in flight in the coalescing scenario
MaxMoves == 3
\* the read guards held at once
MaxReaders == 2
\* span of shot_log, in units: it keeps the shots of the last ShotWindow units
ShotWindow == 2

----------------------------------------------------------------------------
(* Program constants *)

UnitsPerSec == 4
BOT_ID == 999
UNIX_EPOCH == -1000
START_HEALTH == 100
RESPAWN_SECS == 3
BASE_SCORE == 100
STREAK_BONUS == 25
STREAK_CAP == 5
MAX_DAMAGE == 100
TIMEOUT_SECS == 15
WARNING_NUM == 1
WARNING_DEN == 2

None == << >>
Some(x) == <<x>>
IsSome(o) == o # << >>
Unwrap(o) == o[1]

SPAWN_POSITION == "0,1,0"
SPAWN_ROTATION == "0,0,0"

\* the weapon catalog (utils/weapondb.rs): id -> weapon
WeaponDb ==
    (1 :> [damage |-> 20, fire_rate |-> 4, reload_time |-> 2, ammo |-> 20]) @@
    (2 :> [damage |-> 50, fire_rate |-> 2, reload_time |-> 2, ammo |-> 8])

default_weapon_id == 1

Min(a, b) == IF a <= b THEN a ELSE b

\* u32::saturating_sub
saturating_sub(a, b) == IF a >= b THEN a - b ELSE 0

----------------------------------------------------------------------------
(* state/lobby.rs: the Lobby container *)

NewLobby ==
    [players |-> << >>, client_addresses |-> << >>, dirty_players |-> {},
     last_sync_state |-> << >>, max_players |-> MaxPlayers]

mark_dirty(L, player_id) ==
    [L EXCEPT !.dirty_players = @ \cup {player_id}]

clear_dirty(L) == [L EXCEPT !.dirty_players = {}]

\* HashMap::insert and HashMap::remove
Insert(m, k, v) == [i \in (DOMAIN m) \cup {k} |-> IF i = k THEN v ELSE m[i]]
Remove(m, k) == [i \in (DOMAIN m) \ {k} |-> m[i]]

Has(L, player_id) == player_id \in DOMAIN L.players

\* Player::to_sync_state
to_sync_state(p) ==
    [health |-> p.current_health, ammo |-> p.current_ammo,
     max_ammo |-> p.max_ammo, weapon_id |-> p.current_weapon_id,
     is_reloading |-> p.is_reloading, kills |-> p.kills,
     deaths |-> p.deaths, score |-> p.score, killstreak |-> p.killstreak]

----------------------------------------------------------------------------
(* domain/lobbies.rs *)

NewPlayer(player_id, weapon_id, t) ==
    [id |-> player_id,
     position |-> SPAWN_POSITION, rotation |-> SPAWN_ROTATION,
     last_update |-> t,
     current_health |-> START_HEALTH, max_health |-> START_HEALTH,
     current_weapon_id |-> weapon_id,
     current_ammo |-> WeaponDb[weapon_id].ammo,
     max_ammo |-> WeaponDb[weapon_id].ammo,
     is_reloading |-> FALSE, reload_end_time |-> None,
     last_shot_time |-> UNIX_EPOCH,
     kills |-> 0, deaths |-> 0, score |-> 0, killstreak |-> 0,
     warned_at |-> None, is_dead |-> FALSE, respawn_time |-> None]

\* add_player without its capacity test: the capacity bound must reject it
add_player_unbounded(L, player_id, weapon_id, t) ==
    IF Has(L, player_id)
    THEN [ok |-> FALSE, lobby |-> L]
    ELSE IF weapon_id \notin DOMAIN WeaponDb
    THEN [ok |-> FALSE, lobby |-> L]
    ELSE [ok |-> TRUE,
          lobby |-> mark_dirty(
              [L EXCEPT !.players =
                  Insert(@, player_id, NewPlayer(player_id, weapon_id, t))],
              player_id)]

\* add_player: the result and the lobby after the call
add_player(L, player_id, weapon_id, t) ==
    IF Cardinality(DOMAIN L.players) >= L.max_players
    THEN [ok |-> FALSE, lobby |-> L]
    ELSE IF Has(L, player_id)
    THEN [ok |-> FALSE, lobby |-> L]
    ELSE IF weapon_id \notin DOMAIN WeaponDb
    THEN [ok |-> FALSE, lobby |-> L]
    ELSE [ok |-> TRUE,
          lobby |-> mark_dirty(
              [L EXCEPT !.players =
                  Insert(@, player_id, NewPlayer(player_id, weapon_id, t))],
              player_id)]

\* remove_player that forgets to drop the sync snapshot: the clean
\* departure of a player must reject it
remove_player_keeping_sync(L, player_id) ==
    [L EXCEPT !.players = Remove(@, player_id),
              !.client_addresses = Remove(@, player_id)]

\* remove_player without the removal from client_addresses: the address
\* invariant must reject it
remove_player_keeping_address(L, player_id) ==
    [L EXCEPT !.players = Remove(@, player_id),
              !.last_sync_state = Remove(@, player_id)]

remove_player(L, player_id) ==
    [L EXCEPT !.players = Remove(@, player_id),
              !.client_addresses = Remove(@, player_id),
              !.last_sync_state = Remove(@, player_id)]

\* update_position that leaves last_update alone: the keep-alive effect of
\* a position update must reject it
update_position_keeping_time(L, player_id, position, rotation, t) ==
    IF ~Has(L, player_id)
    THEN L
    ELSE mark_dirty(
        [L EXCEPT !.players[player_id].position = position,
                  !.players[player_id].rotation = rotation],
        player_id)

update_position(L, player_id, position, rotation, t) ==
    IF ~Has(L, player_id)
    THEN L
    ELSE mark_dirty(
        [L EXCEPT !.players[player_id].position = position,
                  !.players[player_id].rotation = rotation,
                  !.players[player_id].last_update = t],
        player_id)

set_player_address(L, player_id, addr) ==
    IF ~Has(L, player_id)
    THEN L
    ELSE [L EXCEPT !.client_addresses = Insert(@, player_id, addr)]

\* Duration::as_secs of now.duration_since(stamp): whole seconds, truncated
as_secs(units) == units \div UnitsPerSec

\* (timeout_secs as f64 * warning_fraction) as u64
warning_threshold(timeout_secs) == (timeout_secs * WARNING_NUM) \div WARNING_DEN

\* inactive_players without the test for the bot's id: the bot's exemption
\* must reject it
inactive_players_with_bot(L, timeout_secs, t) ==
    {id \in DOMAIN L.players :
        /\ t >= L.players[id].last_update
        /\ as_secs(t - L.players[id].last_update) > timeout_secs}

\* the ids cleanup_inactive collects for removal
inactive_players(L, timeout_secs, t) ==
    {id \in DOMAIN L.players :
        /\ id # BOT_ID
        /\ t >= L.players[id].last_update
        /\ as_secs(t - L.players[id].last_update) > timeout_secs}

\* warned_players without the test of warned_at: the single warning of a
\* stay must reject it
warned_players_again(L, timeout_secs, t) ==
    {id \in DOMAIN L.players :
        /\ id # BOT_ID
        /\ t >= L.players[id].last_update
        /\ ~(as_secs(t - L.players[id].last_update) > timeout_secs)
        /\ as_secs(t - L.players[id].last_update) > warning_threshold(timeout_secs)}

\* the ids cleanup_inactive collects for a warning
warned_players(L, timeout_secs, t) ==
    {id \in DOMAIN L.players :
        /\ id # BOT_ID
        /\ t >= L.players[id].last_update
        /\ ~(as_secs(t - L.players[id].last_update) > timeout_secs)
        /\ as_secs(t - L.players[id].last_update) > warning_threshold(timeout_secs)
        /\ ~IsSome(L.players[id].warned_at)}

RECURSIVE RemoveAll(_, _)
RemoveAll(L, ids) ==
    IF ids = {} THEN L
    ELSE LET id == CHOOSE x \in ids : TRUE
         IN RemoveAll(remove_player(L, id), ids \ {id})

\* cleanup_inactive: the lobby after the call
cleanup_inactive(L, timeout_secs, t) ==
    LET removed == inactive_players(L, timeout_secs, t)
        warned == warned_players(L, timeout_secs, t)
        L1 == RemoveAll(L, removed)
    IN [L1 EXCEPT !.players =
            [id \in DOMAIN L1.players |->
                IF id \in warned
                THEN [L1.players[id] EXCEPT !.warned_at = Some(t)]
                ELSE L1.players[id]]]

----------------------------------------------------------------------------
(* domain/logic.rs *)

\* a fire-rate test that never blocks: the fire-rate bound must reject it
never_too_soon(elapsed, fire_rate) == FALSE

\* time_since_last_shot.as_secs_f32() < (1.0 / weapon.fire_rate): elapsed
\* units over UnitsPerSec against 1 over fire_rate; both sides are exact in
\* f32 for the quarter-second grid and the catalog's rates
too_soon(elapsed, fire_rate) == elapsed * fire_rate < UnitsPerSec

\* try_shoot without the reload gate: a blocked shot must reject it
try_shoot_while_reloading(L, player_id, t) ==
    IF ~Has(L, player_id) THEN [res |-> "err", lobby |-> L]
    ELSE LET player == L.players[player_id] IN
    IF player.current_ammo = 0 THEN [res |-> "false", lobby |-> L]
    ELSE IF player.current_weapon_id \notin DOMAIN WeaponDb
    THEN [res |-> "err", lobby |-> L]
    ELSE IF t < player.last_shot_time THEN [res |-> "err", lobby |-> L]
    ELSE IF too_soon(t - player.last_shot_time,
                     WeaponDb[player.current_weapon_id].fire_rate)
    THEN [res |-> "false", lobby |-> L]
    ELSE [res |-> "true",
          lobby |-> mark_dirty(
              [L EXCEPT !.players[player_id].current_ammo =
                            saturating_sub(@, 1),
                        !.players[player_id].last_shot_time = t],
              player_id)]

\* try_shoot that stamps the shot and leaves the round in the magazine: a
\* shot that passes the gates must reject it
try_shoot_free(L, player_id, t) ==
    IF ~Has(L, player_id) THEN [res |-> "err", lobby |-> L]
    ELSE LET player == L.players[player_id] IN
    IF player.is_reloading THEN [res |-> "false", lobby |-> L]
    ELSE IF player.current_ammo = 0 THEN [res |-> "false", lobby |-> L]
    ELSE IF player.current_weapon_id \notin DOMAIN WeaponDb
    THEN [res |-> "err", lobby |-> L]
    ELSE IF t < player.last_shot_time THEN [res |-> "err", lobby |-> L]
    ELSE IF too_soon(t - player.last_shot_time,
                     WeaponDb[player.current_weapon_id].fire_rate)
    THEN [res |-> "false", lobby |-> L]
    ELSE [res |-> "true",
          lobby |-> mark_dirty(
              [L EXCEPT !.players[player_id].last_shot_time = t],
              player_id)]

\* try_shoot: res is "true", "false" or "err"
try_shoot(L, player_id, t) ==
    IF ~Has(L, player_id) THEN [res |-> "err", lobby |-> L]
    ELSE LET player == L.players[player_id] IN
    IF player.is_reloading THEN [res |-> "false", lobby |-> L]
    ELSE IF player.current_ammo = 0 THEN [res |-> "false", lobby |-> L]
    ELSE IF player.current_weapon_id \notin DOMAIN WeaponDb
    THEN [res |-> "err", lobby |-> L]
    ELSE IF t < player.last_shot_time THEN [res |-> "err", lobby |-> L]
    ELSE IF too_soon(t - player.last_shot_time,
                     WeaponDb[player.current_weapon_id].fire_rate)
    THEN [res |-> "false", lobby |-> L]
    ELSE [res |-> "true",
          lobby |-> mark_dirty(
              [L EXCEPT !.players[player_id].current_ammo =
                            saturating_sub(@, 1),
                        !.players[player_id].last_shot_time = t],
              player_id)]

\* apply_damage with a plain subtraction in place of saturating_sub: the
\* health bound must reject it
apply_damage_unsaturated(L, target_id, damage) ==
    IF ~Has(L, target_id) THEN L
    ELSE IF damage = 0 \/ damage > MAX_DAMAGE THEN L
    ELSE mark_dirty(
        [L EXCEPT !.players[target_id].current_health = @ - damage],
        target_id)

apply_damage(L, target_id, damage) ==
    IF ~Has(L, target_id) THEN L
    ELSE IF damage = 0 \/ damage > MAX_DAMAGE THEN L
    ELSE mark_dirty(
        [L EXCEPT !.players[target_id].current_health =
            saturating_sub(@, damage)],
        target_id)

\* Duration::from_secs_f32(weapon.reload_time), in units
reload_duration(weapon) == weapon.reload_time * UnitsPerSec

\* start_reload that starts over when a reload is already in progress: a
\* repeated Reload must reject it
start_reload_again(L, player_id, t) ==
    IF ~Has(L, player_id) THEN L
    ELSE LET player == L.players[player_id] IN
    IF player.current_ammo = player.max_ammo THEN L
    ELSE IF player.current_weapon_id \notin DOMAIN WeaponDb THEN L
    ELSE mark_dirty(
        [L EXCEPT !.players[player_id].is_reloading = TRUE,
                  !.players[player_id].reload_end_time =
                      Some(t + reload_duration(WeaponDb[player.current_weapon_id]))],
        player_id)

start_reload(L, player_id, t) ==
    IF ~Has(L, player_id) THEN L
    ELSE LET player == L.players[player_id] IN
    IF player.is_reloading \/ player.current_ammo = player.max_ammo THEN L
    ELSE IF player.current_weapon_id \notin DOMAIN WeaponDb THEN L
    ELSE mark_dirty(
        [L EXCEPT !.players[player_id].is_reloading = TRUE,
                  !.players[player_id].reload_end_time =
                      Some(t + reload_duration(WeaponDb[player.current_weapon_id]))],
        player_id)

\* completed_reloads with a strict comparison, one tick late when now is
\* exactly the end time: reload completion must reject it
completed_reloads_late(L, t) ==
    {id \in DOMAIN L.players :
        /\ L.players[id].is_reloading
        /\ IsSome(L.players[id].reload_end_time)
        /\ t > Unwrap(L.players[id].reload_end_time)}

\* the ids update_reload_states completes
completed_reloads(L, t) ==
    {id \in DOMAIN L.players :
        /\ L.players[id].is_reloading
        /\ IsSome(L.players[id].reload_end_time)
        /\ t >= Unwrap(L.players[id].reload_end_time)}

\* update_reload_states that leaves reload_end_time set: the reload
\* invariant must reject it
update_reload_states_keeping_end(L, t) ==
    LET done == completed_reloads(L, t) IN
    [L EXCEPT !.players =
        [id \in DOMAIN L.players |->
            IF id \in done
            THEN [L.players[id] EXCEPT !.current_ammo = L.players[id].max_ammo,
                                       !.is_reloading = FALSE]
            ELSE L.players[id]],
              !.dirty_players = @ \cup done]

update_reload_states(L, t) ==
    LET done == completed_reloads(L, t) IN
    [L EXCEPT !.players =
        [id \in DOMAIN L.players |->
            IF id \in done
            THEN [L.players[id] EXCEPT !.current_ammo = L.players[id].max_ammo,
                                       !.is_reloading = FALSE,
                                       !.reload_end_time = None]
            ELSE L.players[id]],
              !.dirty_players = @ \cup done]

\* switch_weapon that leaves a reload in progress running: the cancelled
\* reload of a weapon switch must reject it
switch_weapon_keeping_reload(L, player_id, weapon_id) ==
    IF ~Has(L, player_id) THEN L
    ELSE IF weapon_id \notin DOMAIN WeaponDb THEN L
    ELSE mark_dirty(
        [L EXCEPT !.players[player_id].current_weapon_id = weapon_id,
                  !.players[player_id].current_ammo = WeaponDb[weapon_id].ammo,
                  !.players[player_id].max_ammo = WeaponDb[weapon_id].ammo],
        player_id)

\* switch_weapon that keeps the rounds of the old magazine: the ammo bound
\* must reject it
switch_weapon_keeping_ammo(L, player_id, weapon_id) ==
    IF ~Has(L, player_id) THEN L
    ELSE IF weapon_id \notin DOMAIN WeaponDb THEN L
    ELSE mark_dirty(
        [L EXCEPT !.players[player_id].current_weapon_id = weapon_id,
                  !.players[player_id].max_ammo = WeaponDb[weapon_id].ammo,
                  !.players[player_id].is_reloading = FALSE,
                  !.players[player_id].reload_end_time = None],
        player_id)

switch_weapon(L, player_id, weapon_id) ==
    IF ~Has(L, player_id) THEN L
    ELSE IF weapon_id \notin DOMAIN WeaponDb THEN L
    ELSE mark_dirty(
        [L EXCEPT !.players[player_id].current_weapon_id = weapon_id,
                  !.players[player_id].current_ammo = WeaponDb[weapon_id].ammo,
                  !.players[player_id].max_ammo = WeaponDb[weapon_id].ammo,
                  !.players[player_id].is_reloading = FALSE,
                  !.players[player_id].reload_end_time = None],
        player_id)

\* register_kill that takes the bonus from the killstreak after the kill:
\* kill accounting must reject it
register_kill_new_streak(L, killer_id, victim_id, t) ==
    IF ~Has(L, killer_id) THEN [ok |-> FALSE, lobby |-> L, killstreak |-> 0]
    ELSE IF ~Has(L, victim_id) THEN [ok |-> FALSE, lobby |-> L, killstreak |-> 0]
    ELSE
    LET killer_killstreak == L.players[killer_id].killstreak
        killstreak_bonus ==
            Min(killer_killstreak + 1, STREAK_CAP) * STREAK_BONUS
        L1 == [L EXCEPT !.players[killer_id].kills = @ + 1,
                        !.players[killer_id].killstreak = killer_killstreak + 1,
                        !.players[killer_id].score =
                            @ + BASE_SCORE + killstreak_bonus]
        L2 == [L1 EXCEPT !.players[victim_id].deaths = @ + 1,
                         !.players[victim_id].killstreak = 0,
                         !.players[victim_id].current_health = 0,
                         !.players[victim_id].is_dead = TRUE,
                         !.players[victim_id].respawn_time =
                             Some(t + RESPAWN_SECS * UnitsPerSec)]
    IN [ok |-> TRUE,
        lobby |-> mark_dirty(mark_dirty(L2, killer_id), victim_id),
        killstreak |-> killer_killstreak + 1]

\* register_kill that credits the killer before it looks the victim up: the
\* error path must reject it
register_kill_credit_first(L, killer_id, victim_id, t) ==
    IF ~Has(L, killer_id) THEN [ok |-> FALSE, lobby |-> L, killstreak |-> 0]
    ELSE
    LET killer_killstreak == L.players[killer_id].killstreak
        killstreak_bonus == Min(killer_killstreak, STREAK_CAP) * STREAK_BONUS
        L1 == [L EXCEPT !.players[killer_id].kills = @ + 1,
                        !.players[killer_id].killstreak = killer_killstreak + 1,
                        !.players[killer_id].score =
                            @ + BASE_SCORE + killstreak_bonus]
    IN IF ~Has(L, victim_id)
       THEN [ok |-> FALSE, lobby |-> mark_dirty(L1, killer_id), killstreak |-> 0]
       ELSE
       LET L2 == [L1 EXCEPT !.players[victim_id].deaths = @ + 1,
                            !.players[victim_id].killstreak = 0,
                            !.players[victim_id].current_health = 0,
                            !.players[victim_id].is_dead = TRUE,
                            !.players[victim_id].respawn_time =
                                Some(t + RESPAWN_SECS * UnitsPerSec)]
       IN [ok |-> TRUE,
           lobby |-> mark_dirty(mark_dirty(L2, killer_id), victim_id),
           killstreak |-> killer_killstreak + 1]

\* register_kill: ok is FALSE for an Err, with the lobby as the call left it
register_kill(L, killer_id, victim_id, t) ==
    IF ~Has(L, killer_id) THEN [ok |-> FALSE, lobby |-> L, killstreak |-> 0]
    ELSE IF ~Has(L, victim_id) THEN [ok |-> FALSE, lobby |-> L, killstreak |-> 0]
    ELSE IF L.players[killer_id].current_weapon_id \notin DOMAIN WeaponDb
    THEN [ok |-> FALSE, lobby |-> L, killstreak |-> 0]
    ELSE
    LET killer_killstreak == L.players[killer_id].killstreak
        killstreak_bonus == Min(killer_killstreak, STREAK_CAP) * STREAK_BONUS
        L1 == [L EXCEPT !.players[killer_id].kills = @ + 1,
                        !.players[killer_id].killstreak = killer_killstreak + 1,
                        !.players[killer_id].score =
                            @ + BASE_SCORE + killstreak_bonus]
        L2 == [L1 EXCEPT !.players[victim_id].deaths = @ + 1,
                         !.players[victim_id].killstreak = 0,
                         !.players[victim_id].current_health = 0,
                         !.players[victim_id].is_dead = TRUE,
                         !.players[victim_id].respawn_time =
                             Some(t + RESPAWN_SECS * UnitsPerSec)]
    IN [ok |-> TRUE,
        lobby |-> mark_dirty(mark_dirty(L2, killer_id), victim_id),
        killstreak |-> killer_killstreak + 1]

respawn_player(L, player_id) ==
    IF ~Has(L, player_id) THEN L
    ELSE mark_dirty(
        [L EXCEPT !.players[player_id].position = SPAWN_POSITION,
                  !.players[player_id].rotation = SPAWN_ROTATION,
                  !.players[player_id].current_health =
                      L.players[player_id].max_health,
                  !.players[player_id].current_ammo =
                      L.players[player_id].max_ammo,
                  !.players[player_id].is_reloading = FALSE,
                  !.players[player_id].reload_end_time = None],
        player_id)

is_player_alive(L, player_id) ==
    IF Has(L, player_id) THEN L.players[player_id].current_health > 0 ELSE FALSE

----------------------------------------------------------------------------
(* state/commands.rs: LobbyCommand and drain_and_coalesce *)

PlayerJoin(player_id, addr) ==
    [kind |-> "PlayerJoin", player_id |-> player_id, addr |-> addr]
PlayerLeave(player_id) == [kind |-> "PlayerLeave", player_id |-> player_id]
UdpConnect(player_id, addr) ==
    [kind |-> "UdpConnect", player_id |-> player_id, addr |-> addr]
PositionUpdate(player_id, position, rotation, addr) ==
    [kind |-> "PositionUpdate", player_id |-> player_id,
     position |-> position, rotation |-> rotation, addr |-> addr]
Shoot(player_id, target_id) ==
    [kind |-> "Shoot", player_id |-> player_id, target_id |-> target_id]
Reload(player_id) == [kind |-> "Reload", player_id |-> player_id]
WeaponSwitch(player_id, weapon_id) ==
    [kind |-> "WeaponSwitch", player_id |-> player_id, weapon_id |-> weapon_id]
Heartbeat(player_id, addr) ==
    [kind |-> "Heartbeat", player_id |-> player_id, addr |-> addr]

\* a drain that keeps every command: coalescing must reject it
survives_all(q, i) == TRUE

\* the commands of q that survive coalescing: every command that is not a
\* PositionUpdate, and each player's last PositionUpdate
Survives(q, i) ==
    \/ q[i].kind # "PositionUpdate"
    \/ \A j \in (i + 1)..Len(q) :
          ~(q[j].kind = "PositionUpdate" /\ q[j].player_id = q[i].player_id)

\* the commands of q from index i on that are (positions = TRUE) surviving
\* position updates, or (positions = FALSE) commands of another kind
RECURSIVE SelectFrom(_, _, _)
SelectFrom(q, i, positions) ==
    IF i > Len(q) THEN << >>
    ELSE IF (q[i].kind = "PositionUpdate") = positions /\ Survives(q, i)
    THEN <<q[i]>> \o SelectFrom(q, i + 1, positions)
    ELSE SelectFrom(q, i + 1, positions)

\* the commands of q other than position updates, newest first, up to
\* index i
RECURSIVE others_newest_first(_, _)
others_newest_first(q, i) ==
    IF i < 1 THEN << >>
    ELSE (IF q[i].kind = "PositionUpdate" THEN << >> ELSE <<q[i]>>)
         \o others_newest_first(q, i - 1)

\* a drain that hands the other commands over newest first: the arrival
\* order of a batch must reject it
drain_newest_first(q) ==
    SelectFrom(q, 1, TRUE) \o others_newest_first(q, Len(q))

\* drain_and_coalesce: the surviving position updates, then the other
\* commands in arrival order
drain_and_coalesce(q) == SelectFrom(q, 1, TRUE) \o SelectFrom(q, 1, FALSE)

----------------------------------------------------------------------------
(* tick/delta_sync.rs *)

\* collect_dirty_events: the snapshot of every dirty player still in the
\* lobby is brought up to date
collect_dirty_events(L) ==
    LET ids == L.dirty_players \cap DOMAIN L.players IN
    [L EXCEPT !.last_sync_state =
        [id \in (DOMAIN L.last_sync_state) \cup ids |->
            IF id \in ids THEN to_sync_state(L.players[id])
            ELSE L.last_sync_state[id]]]

----------------------------------------------------------------------------
(* tick/lobby_tick.rs *)

\* process_command: the lobby after the dispatch of one command at time t
process_command(L, cmd, t) ==
    CASE cmd.kind = "PlayerJoin" ->
            LET r == add_player(L, cmd.player_id, default_weapon_id, t) IN
            IF ~r.ok THEN L
            ELSE set_player_address(r.lobby, cmd.player_id, cmd.addr)
      [] cmd.kind = "PlayerLeave" -> remove_player(L, cmd.player_id)
      [] cmd.kind = "UdpConnect" ->
            IF Has(L, cmd.player_id)
            THEN [L EXCEPT !.client_addresses =
                               Insert(@, cmd.player_id, cmd.addr),
                           !.players[cmd.player_id].last_update = t]
            ELSE L
      [] cmd.kind = "PositionUpdate" ->
            LET L1 == IF Has(L, cmd.player_id)
                      THEN [L EXCEPT !.client_addresses =
                                Insert(@, cmd.player_id, cmd.addr)]
                      ELSE L
            IN update_position(L1, cmd.player_id, cmd.position, cmd.rotation, t)
      [] cmd.kind = "Shoot" ->
            LET r == try_shoot(L, cmd.player_id, t) IN
            IF r.res = "true"
            THEN LET player == r.lobby.players[cmd.player_id] IN
                 IF player.current_weapon_id \in DOMAIN WeaponDb
                 THEN apply_damage(r.lobby, cmd.target_id,
                                   WeaponDb[player.current_weapon_id].damage)
                 ELSE r.lobby
            ELSE r.lobby
      [] cmd.kind = "Reload" -> start_reload(L, cmd.player_id, t)
      [] cmd.kind = "WeaponSwitch" ->
            switch_weapon(L, cmd.player_id, cmd.weapon_id)
      [] cmd.kind = "Heartbeat" ->
            IF Has(L, cmd.player_id)
            THEN [L EXCEPT !.client_addresses =
                               Insert(@, cmd.player_id, cmd.addr),
                           !.players[cmd.player_id].last_update = t]
            ELSE L

\* the dead players whose respawn time has come (players_to_respawn)
players_to_respawn(L, t) ==
    {id \in DOMAIN L.players :
        /\ L.players[id].is_dead
        /\ IsSome(L.players[id].respawn_time)
        /\ t >= Unwrap(L.players[id].respawn_time)}

RECURSIVE RespawnAll(_, _)
RespawnAll(L, ids) ==
    IF ids = {} THEN L
    ELSE LET id == CHOOSE x \in ids : TRUE
         IN RespawnAll(respawn_player(L, id), ids \ {id})

RECURSIVE SetToSeq(_)
SetToSeq(S) ==
    IF S = {} THEN << >>
    ELSE LET x == CHOOSE y \in S : \A z \in S : y <= z
         IN <<x>> \o SetToSeq(S \ {x})

\* steps 4 to 6 of the loop body: reload timers, respawn timers, cleanup
timers_phase(L, t) ==
    cleanup_inactive(
        RespawnAll(update_reload_states(L, t),
                   players_to_respawn(update_reload_states(L, t), t)),
        TIMEOUT_SECS, t)

\* the end of the loop body without clear_dirty: the dirty-set invariant
\* must reject it
sync_phase_keeping_dirty(L) == collect_dirty_events(L)

\* steps 10 and 12 of the loop body: delta sync, then the dirty flags
sync_phase(L) == clear_dirty(collect_dirty_events(L))

\* a successful Shoot of the command, for the history of shots
ShotFired(L, cmd, t) ==
    cmd.kind = "Shoot" /\ try_shoot(L, cmd.player_id, t).res = "true"

\* shot_log: the successful shots of the last ShotWindow units, oldest
\* first, each with its time, its shooter and the weapon it was fired with
LogShot(log, L, player_id, t) ==
    Append(log, [time |-> t, player_id |-> player_id,
                 weapon_id |-> L.players[player_id].current_weapon_id])

RECURSIVE PruneLog(_, _)
PruneLog(log, t) ==
    IF log # << >> /\ Head(log).time < t - ShotWindow
    THEN PruneLog(Tail(log), t)
    ELSE log

\* one datagram handed to socket.send_to: its "type", the player it is
\* about, the address it goes to and the rest of its payload
Datagram(type, player_id, to, body) ==
    [type |-> type, player_id |-> player_id, to |-> to, body |-> body]

\* the "players" array of a player_list packet: everyone but player_id
player_list(L, player_id) ==
    LET ids == SetToSeq(DOMAIN L.players \ {player_id}) IN
    [i \in 1..Len(ids) |->
        <<ids[i], L.players[ids[i]].position, L.players[ids[i]].rotation>>]

\* lobby_tick.rs send_welcome_message
send_welcome_message(L, player_id, addr) ==
    << Datagram("welcome", player_id, addr, << >>),
       Datagram("player_list", player_id, addr, player_list(L, player_id)) >>

\* lobby_tick.rs send_udp_connected_message
send_udp_connected_message(L, player_id, addr) ==
    << Datagram("udp_connected", player_id, addr, << >>),
       Datagram("player_list", player_id, addr, player_list(L, player_id)) >>

\* one send_to per entry of client_addresses whose client is not in except
SendToAll(L, except, type, player_id, body) ==
    LET cids == SetToSeq(DOMAIN L.client_addresses \ except) IN
    [i \in 1..Len(cids) |->
        Datagram(type, player_id, L.client_addresses[cids[i]], body)]

RECURSIVE Flatten(_)
Flatten(ss) == IF ss = << >> THEN << >> ELSE Head(ss) \o Flatten(Tail(ss))

\* lobby_tick.rs broadcast_player_join_events: to all but the joiner
broadcast_player_join_events(L, players) ==
    Flatten([i \in 1..Len(players) |->
        SendToAll(L, {players[i]}, "player_joined", players[i], << >>)])

\* lobby_tick.rs broadcast_player_leave_events: to every remaining client
broadcast_player_leave_events(L, player_ids) ==
    Flatten([i \in 1..Len(player_ids) |->
        SendToAll(L, {}, "player_left", player_ids[i], << >>)])

\* lobby_tick.rs broadcast_position_updates: to all but the mover, for the
\* movers that are players
broadcast_position_updates(L, player_ids) ==
    Flatten([i \in 1..Len(player_ids) |->
        IF Has(L, player_ids[i])
        THEN SendToAll(L, {player_ids[i]}, "position_update", player_ids[i],
                       <<L.players[player_ids[i]].position,
                         L.players[player_ids[i]].rotation>>)
        ELSE << >>])

\* lobby_tick.rs 74-98: what one iteration of the dispatch loop sends after
\* process_command has returned lobby L
dispatch_sends(L, cmd) ==
    CASE cmd.kind = "PlayerJoin" ->
            send_welcome_message(L, cmd.player_id, cmd.addr)
      [] cmd.kind = "UdpConnect" ->
            send_udp_connected_message(L, cmd.player_id, cmd.addr)
      [] OTHER -> << >>

\* lobby_tick.rs 149-167: the join, leave and position broadcasts of a tick
broadcast_phase(L, joined, left, moved) ==
    broadcast_player_join_events(L, joined)
        \o broadcast_player_leave_events(L, left)
        \o broadcast_position_updates(L, moved)

\* global_stats.rs 16-28: the totals of a player seen for the first time
NewGlobalPlayerStats ==
    [total_kills |-> 0, total_deaths |-> 0, total_score |-> 0,
     games_played |-> 0]

\* global_stats.rs 59-66 and 30-36: GlobalStats::record_session adds one
\* session to the totals of player_id, creating them when absent (the name
\* and the two timestamps of the entry are left out)
record_session(G, player_id, kills, deaths, score) ==
    LET old == IF player_id \in DOMAIN G THEN G[player_id]
               ELSE NewGlobalPlayerStats
        new == [total_kills |-> old.total_kills + kills,
                total_deaths |-> old.total_deaths + deaths,
                total_score |-> old.total_score + score,
                games_played |-> old.games_played + 1]
    IN [p \in DOMAIN G \cup {player_id} |->
            IF p = player_id THEN new ELSE G[p]]

\* lobby_tick.rs 184-197: at the end of the tick a session is recorded for
\* every id of players_left that the lobby still holds
RECURSIVE record_stats(_, _, _)
record_stats(G, L, left) ==
    IF left = << >> THEN G
    ELSE record_stats(
             IF Has(L, Head(left))
             THEN record_session(G, Head(left),
                                 L.players[Head(left)].kills,
                                 L.players[Head(left)].deaths,
                                 L.players[Head(left)].score)
             ELSE G,
             L, Tail(left))

\* a session that adds nothing
NoSession == [kills |-> 0, deaths |-> 0, score |-> 0]

\* the sessions the tick tasks of other lobbies record
Sessions ==
    {[kills |-> 5, deaths |-> 2, score |-> 500],
     [kills |-> 1, deaths |-> 0, score |-> 100]}

\* a shard lock that is handed to everyone: concurrent sessions of one
\* player must reject it
shard_granted_always(holder) == TRUE

\* global_stats.rs 60-63: players.entry(player_id) takes the write lock of
\* the shard, which is free
shard_granted(holder) == holder = None

\* global_stats.rs 60-63: or_insert_with leaves an entry for player_id in
\* the map
or_insert(G, player_id) ==
    [p \in DOMAIN G \cup {player_id} |->
        IF p \in DOMAIN G THEN G[p] ELSE NewGlobalPlayerStats]

\* global_stats.rs 30-36: the totals `found` with one session added
add_session(found, session) ==
    [total_kills |-> found.total_kills + session.kills,
     total_deaths |-> found.total_deaths + session.deaths,
     total_score |-> found.total_score + session.score,
     games_played |-> found.games_played + 1]

\* no player has MaxSessions recorded sessions yet
SessionsBelowCap(G) ==
    \A p \in DOMAIN G : G[p].games_played < MaxSessions

\* ServerState::lobby_exists, as create_lobby_with_tick calls it
lobby_exists(R, code) == code \in DOMAIN R

\* ServerState::insert_lobby: the handle is stored under the code, in the
\* place of any handle already there
insert_lobby(R, code, handle) ==
    [c \in DOMAIN R \cup {code} |-> IF c = code THEN handle ELSE R[c]]

\* destroy(code): the handle, and with it the command sender, is dropped
destroy(R, code) == [c \in DOMAIN R \ {code} |-> R[c]]

\* ServerState::get_lobby_tx: the sender of the lobby under study, while
\* the handle made with its channel is the registered one
get_lobby_tx(R, code) ==
    IF lobby_exists(R, code) /\ R[code] = MAIN_TASK THEN Some(R[code])
    ELSE None

\* ServerState::register_player_lobby: the player is routed to the lobby
register_player_lobby(P, player_id, code) ==
    [p \in DOMAIN P \cup {player_id} |-> IF p = player_id THEN code ELSE P[p]]

\* ServerState::unregister_player: the player is routed nowhere
unregister_player(P, player_id) == [p \in DOMAIN P \ {player_id} |-> P[p]]

\* lobby_tick.rs 211-244: what process_command does to the routing index
\* when it dispatches cmd on lobby L: a player that joined or connected is
\* registered, a player named by PlayerLeave is unregistered
route_command(P, L, cmd, t) ==
    CASE cmd.kind = "PlayerJoin" ->
            IF add_player(L, cmd.player_id, default_weapon_id, t).ok
            THEN register_player_lobby(P, cmd.player_id, MAIN_CODE)
            ELSE P
      [] cmd.kind = "PlayerLeave" -> unregister_player(P, cmd.player_id)
      [] cmd.kind = "UdpConnect" ->
            IF Has(L, cmd.player_id)
            THEN register_player_lobby(P, cmd.player_id, MAIN_CODE)
            ELSE P
      [] OTHER -> P

\* lobby_tick.rs 38-45: the guarded lobby and the empty vectors a tick
\* starts with
tick_start(L) ==
    [lobby |-> L, players_joined |-> << >>, players_left |-> << >>,
     position_updates |-> << >>, respawn_events |-> {}, outbox |-> << >>]

\* lobby_tick.rs 48-99: one iteration of the dispatch loop
dispatch_command(S, cmd, t) ==
    LET L1 == process_command(S.lobby, cmd, t) IN
    [S EXCEPT !.lobby = L1,
              !.players_joined = IF cmd.kind \in {"PlayerJoin", "UdpConnect"}
                                 THEN Append(@, cmd.player_id) ELSE @,
              !.players_left = IF cmd.kind = "PlayerLeave"
                               THEN Append(@, cmd.player_id) ELSE @,
              !.position_updates = IF cmd.kind = "PositionUpdate"
                                   THEN Append(@, cmd.player_id) ELSE @,
              !.outbox = @ \o dispatch_sends(L1, cmd)]

\* lobby_tick.rs 101-199: timers, cleanup, broadcasts, delta sync,
\* clear_dirty
finish_tick(S, t) ==
    LET L1 == update_reload_states(S.lobby, t)
        L2 == timers_phase(S.lobby, t)
        left == S.players_left \o
                 SetToSeq(inactive_players(
                     RespawnAll(L1, players_to_respawn(L1, t)),
                     TIMEOUT_SECS, t))
    IN [S EXCEPT !.lobby = sync_phase(L2),
                 !.players_left = left,
                 !.respawn_events = players_to_respawn(L1, t),
                 !.outbox = @ \o broadcast_phase(L2, S.players_joined, left,
                                                 S.position_updates)]

\* the dispatch loop over a whole batch
RECURSIVE dispatch_all(_, _, _)
dispatch_all(S, cmds, t) ==
    IF cmds = << >> THEN S
    ELSE dispatch_all(dispatch_command(S, Head(cmds), t), Tail(cmds), t)

\* one pass of the loop body over the queue q, from lobby L at time t
run_tick(L, q, t) ==
    finish_tick(dispatch_all(tick_start(L), drain_and_coalesce(q), t), t)

\* tokio RwLock: write() is granted when no guard is held
write_granted(w, r) == ~w /\ r = 0

\* a lock that grants read() whatever is held: the readers' view must
\* reject it
read_granted_always(w) == TRUE

\* tokio RwLock: read() is granted when no write guard is held
read_granted(w) == ~w

----------------------------------------------------------------------------
(* The inputs of the model *)

Positions == {"10,5,20"}
Rotations == {"0,1,0"}
\* ids of the membership traffic: a client, the reserved bot
LobbyIds == {1, BOT_ID}
\* an id that never joins
ABSENT_ID == 7

\* membership traffic: both ids join from a1; client 1 leaves, connects,
\* moves, and sends its heartbeat from a2
LobbyCommands ==
    {PlayerJoin(id, "a1") : id \in LobbyIds}
    \cup {PlayerLeave(1)}
    \cup {UdpConnect(1, "a1")}
    \cup {PositionUpdate(1, p, r, "a1") : p \in Positions, r \in Rotations}
    \cup {Heartbeat(1, "a2")}

\* combat traffic: player 1 fires at player 2, reloads, switches weapon
CombatCommands == {Shoot(1, 2), Reload(1), WeaponSwitch(1, 2)}
\* traffic around a kill: player 1 fires, reloads and switches weapon, and
\* player 2 kills it
KillCommands == {Shoot(1, 2), Reload(1), WeaponSwitch(1, 2)}

\* the commands of the ordering scenario: player 1 shoots at player 2,
\* reloads and moves
OrderCommands ==
    {Shoot(1, 2), Reload(1), PositionUpdate(1, "10,5,20", "0,1,0", "a1")}

\* the commands of the departure scenario: player 1 leaves, and every
\* other kind of command bears its id
LeaveCommands ==
    {PlayerLeave(1), Shoot(1, 2), Reload(1), WeaponSwitch(1, 2),
     Heartbeat(1, "a2"), UdpConnect(1, "a2"),
     PositionUpdate(1, "10,5,20", "0,1,0", "a2")}

\* the players whose sessions other lobbies record
StatsIds == {1, 2}

\* clock steps, in units: a quarter second and two seconds for combat,
\* one second for kills and respawns, eight seconds for inactivity
\* the moves of two clients: two places for player 1, one for player 2
MovePositions == {"10,5,20", "20,10,20"}
MoveCommands ==
    {PositionUpdate(1, p, "0,1,0", "a1") : p \in MovePositions}
        \cup {PositionUpdate(2, "10,5,20", "0,1,0", "a2")}

\* the traffic of the inactivity scenario: the bot joins, player 1 sends
\* heartbeats from one address and position updates from another
IdleCommands ==
    {PlayerJoin(BOT_ID, "a3"), Heartbeat(1, "a1"),
     PositionUpdate(1, "10,5,20", "0,1,0", "a2")}

\* waits of 7.5 s, 7.75 s and 8 s: a silent player is seen after 7.5, 7.75,
\* 8, 15, 15.25, 15.5, 15.75 and 16 seconds
WatchSteps == {30, 31, 32}

\* the clock of the long firefight moves by the shot interval of the
\* second weapon, up to the time its eighth round can be fired and one
\* more shot attempted
EmptySteps == {2}
EmptyHorizon == 16

CombatSteps == {1, 8}
KillSteps == {4}
IdleSteps == {32}

----------------------------------------------------------------------------
(* Actions *)

Init ==
    /\ now = 0
    /\ lobby = NewLobby
    /\ queue = << >>
    /\ pc = "timer"
    /\ batch = << >>
    /\ players_left = << >>
    /\ respawn_events = {}
    /\ next_player_id = 1
    /\ shot_log = << >>
    /\ players_joined = << >>
    /\ position_updates = << >>
    /\ outbox = << >>
    /\ write_guard = FALSE
    /\ read_guards = 0
    /\ lobbies = (MAIN_CODE :> MAIN_TASK)
    /\ tick_tasks = {<<MAIN_CODE, MAIN_TASK>>}
    /\ creators = [c \in Creators |-> [pc |-> "idle", code |-> MAIN_CODE]]
    /\ global_stats = << >>
    /\ player_lobbies = << >>
    /\ recorders = [c \in Recorders |->
                        [pc |-> "idle", player_id |-> 1,
                         session |-> NoSession, found |-> NoSession]]
    /\ shard_lock = None

\* command_tx.send(cmd): a producer hands a command to the channel it got
\* from the registry (get_lobby_tx)
Send(cmd) ==
    /\ pc = "timer"
    /\ IsSome(get_lobby_tx(lobbies, MAIN_CODE))
    /\ SessionsBelowCap(global_stats)
    /\ Len(queue) < MaxQueue
    /\ queue' = Append(queue, cmd)
    /\ UNCHANGED <<registry, global_stats,
                   now, lobby, pc, batch, players_left, respawn_events,
                   next_player_id, shot_log, tick_out, guards>>

\* a client asks to join again only once its PlayerLeave has been drained
Rejoins(q, cmd) ==
    /\ cmd.kind = "PlayerJoin"
    /\ \E i \in DOMAIN q : q[i] = PlayerLeave(cmd.player_id)

SendLobby == \E cmd \in LobbyCommands : ~Rejoins(queue, cmd) /\ Send(cmd)
SendCombat == \E cmd \in CombatCommands : Send(cmd)
SendKill == \E cmd \in KillCommands : Send(cmd)
SendIdle == \E cmd \in IdleCommands : Send(cmd)
SendLeave == \E cmd \in LeaveCommands : Send(cmd)

\* command_tx.send of a position update, up to MaxMoves in flight
SendMove ==
    /\ pc = "timer"
    /\ IsSome(get_lobby_tx(lobbies, MAIN_CODE))
    /\ Len(queue) < MaxMoves
    /\ \E cmd \in MoveCommands : queue' = Append(queue, cmd)
    /\ UNCHANGED <<registry, global_stats,
                   now, lobby, pc, batch, players_left, respawn_events,
                   next_player_id, shot_log, tick_out, guards>>

\* command_tx.send of a shot, a reload or a position update of player 1,
\* up to MaxMoves in flight
SendOrder ==
    /\ pc = "timer"
    /\ IsSome(get_lobby_tx(lobbies, MAIN_CODE))
    /\ Len(queue) < MaxMoves
    /\ \E cmd \in OrderCommands : queue' = Append(queue, cmd)
    /\ UNCHANGED <<registry, global_stats,
                   now, lobby, pc, batch, players_left, respawn_events,
                   next_player_id, shot_log, tick_out, guards>>

\* http.rs join_lobby: the player is admitted under the write guard
HttpJoin ==
    /\ pc = "timer"
    /\ lobby_exists(lobbies, MAIN_CODE)
    /\ write_granted(write_guard, read_guards)
    /\ next_player_id <= MaxHttpJoins
    /\ next_player_id' = next_player_id + 1
    /\ lobby' = add_player(lobby, next_player_id, default_weapon_id, now).lobby
    /\ UNCHANGED <<registry, global_stats,
                   now, queue, pc, batch, players_left, respawn_events,
                   shot_log, tick_out, guards>>

\* the players of a match are admitted before the clock moves
Admit == now = 0 /\ HttpJoin

\* http.rs get_lobby: lobby_arc.read().await is granted
ReadLock ==
    /\ lobby_exists(lobbies, MAIN_CODE)
    /\ read_granted(write_guard)
    /\ read_guards < MaxReaders
    /\ read_guards' = read_guards + 1
    /\ UNCHANGED <<registry, global_stats,
                   now, lobby, queue, pc, batch, players_left, respawn_events,
                   next_player_id, shot_log, tick_out, write_guard>>

\* http.rs get_lobby: the handler returns and its read guard is dropped
ReadUnlock ==
    /\ read_guards > 0
    /\ read_guards' = read_guards - 1
    /\ UNCHANGED <<registry, global_stats,
                   now, lobby, queue, pc, batch, players_left, respawn_events,
                   next_player_id, shot_log, tick_out, write_guard>>

\* udp.rs handle_join_packet
handle_join_packet(L, pid, addr) ==
    IF Has(L, pid)
    THEN [L EXCEPT !.client_addresses = Insert(@, pid, addr)]
    ELSE L

\* udp.rs handle_leave_packet
handle_leave_packet(L, pid) ==
    IF Has(L, pid)
    THEN [L EXCEPT !.players = Remove(@, pid),
                   !.client_addresses = Remove(@, pid)]
    ELSE L

\* udp.rs handle_position_update_packet
handle_position_update_packet(L, pid, position, rotation, t) ==
    IF Has(L, pid)
    THEN [L EXCEPT !.players[pid].position = position,
                   !.players[pid].rotation = rotation,
                   !.players[pid].last_update = t]
    ELSE L

\* udp.rs handle_keepalive_packet
handle_keepalive_packet(L, pid, t) ==
    IF Has(L, pid)
    THEN [L EXCEPT !.players[pid].last_update = t]
    ELSE L

\* a packet handled by handle_udp_packet while the tick task waits
UdpPacket(L) ==
    /\ pc = "timer"
    /\ lobby_exists(lobbies, MAIN_CODE)
    /\ write_granted(write_guard, read_guards)
    /\ lobby' = L
    /\ lobby' # lobby
    /\ UNCHANGED <<registry, global_stats,
                   now, queue, pc, batch, players_left, respawn_events,
                   next_player_id, shot_log, tick_out, guards>>

UdpJoin == \E pid \in LobbyIds :
    UdpPacket(handle_join_packet(lobby, pid, "a2"))
UdpLeave == \E pid \in LobbyIds : UdpPacket(handle_leave_packet(lobby, pid))
UdpPosition == \E pid \in {1}, p \in Positions, r \in Rotations :
    UdpPacket(handle_position_update_packet(lobby, pid, p, r, now))
UdpKeepalive == \E pid \in {1} :
    UdpPacket(handle_keepalive_packet(lobby, pid, now))

\* the clock moves by d while the tick task waits on its timer
Advance(steps, horizon) ==
    /\ pc = "timer"
    /\ \E d \in steps : now + d <= horizon /\ now' = now + d
    /\ shot_log' = PruneLog(shot_log, now')
    /\ UNCHANGED <<registry, global_stats,
                   lobby, queue, pc, batch, players_left, respawn_events,
                   next_player_id, tick_out, guards>>

AdvanceCombat == Advance(CombatSteps, CombatHorizon)
AdvanceKill == Advance(KillSteps, KillHorizon)
AdvanceIdle == Advance(IdleSteps, IdleHorizon)
AdvanceWatch == Advance(WatchSteps, IdleHorizon)
AdvanceEmpty == Advance(EmptySteps, EmptyHorizon)

\* lobby_tick.rs 32-45: the timer fires, the queue is drained, the write
\* guard is taken
TickDrain ==
    /\ pc = "timer"
    /\ write_granted(write_guard, read_guards)
    /\ batch' = drain_and_coalesce(queue)
    /\ queue' = << >>
    /\ write_guard' = TRUE
    /\ pc' = "dispatch"
    /\ players_left' = << >>
    /\ respawn_events' = {}
    /\ players_joined' = << >>
    /\ position_updates' = << >>
    /\ outbox' = << >>
    /\ UNCHANGED <<registry, global_stats,
                   now, lobby, next_player_id, shot_log, read_guards>>

\* the tick-local state of the loop body
tick_state ==
    [lobby |-> lobby, players_joined |-> players_joined,
     players_left |-> players_left, position_updates |-> position_updates,
     respawn_events |-> respawn_events, outbox |-> outbox]

\* lobby_tick.rs 48-99: one iteration of the dispatch loop
TickDispatch ==
    /\ pc = "dispatch"
    /\ batch # << >>
    /\ \E cmd \in {Head(batch)} :
       \E S \in {dispatch_command(tick_state, cmd, now)} :
        /\ lobby' = S.lobby
        /\ players_joined' = S.players_joined
        /\ players_left' = S.players_left
        /\ position_updates' = S.position_updates
        /\ outbox' = S.outbox
        /\ shot_log' = IF ShotFired(lobby, cmd, now)
                       THEN LogShot(shot_log, lobby, cmd.player_id, now)
                       ELSE shot_log
        /\ player_lobbies' = route_command(player_lobbies, lobby, cmd, now)
    /\ batch' = Tail(batch)
    /\ UNCHANGED <<lobbies, tick_tasks, creators, global_stats, stats_calls,
                   now, queue, pc, respawn_events, next_player_id, guards>>

\* lobby_tick.rs 101-199: timers, cleanup, broadcasts, delta sync, the
\* sessions of the players that left, clear_dirty
TickFinish ==
    /\ pc = "dispatch"
    /\ batch = << >>
    /\ shard_granted(shard_lock)
    /\ \E S \in {finish_tick(tick_state, now)} :
          /\ respawn_events' = S.respawn_events
          /\ players_left' = S.players_left
          /\ outbox' = S.outbox
          /\ lobby' = S.lobby
          /\ global_stats' = record_stats(global_stats, S.lobby,
                                          S.players_left)
    /\ pc' = "end"
    /\ UNCHANGED <<registry,
                   now, queue, batch, next_player_id, shot_log,
                   players_joined, position_updates, guards>>

\* lobby_tick.rs 200, 31-32: the guard and the vectors of the loop body are
\* dropped and the loop waits again
TickLoop ==
    /\ pc = "end"
    /\ pc' = "timer"
    /\ write_guard' = FALSE
    /\ players_joined' = << >>
    /\ players_left' = << >>
    /\ position_updates' = << >>
    /\ respawn_events' = {}
    /\ outbox' = << >>
    /\ UNCHANGED <<registry, global_stats,
                   now, lobby, queue, batch, next_player_id, shot_log,
                   read_guards>>

Tick == TickDrain \/ TickDispatch \/ TickFinish \/ TickLoop

\* the variables of the lobby under study and its tick task
engine == <<now, lobby, queue, pc, batch, players_left, respawn_events,
            next_player_id, shot_log, tick_out, guards>>

\* http.rs 24-30: a create request for some code arrives; it is answered
\* with CONFLICT when the code is registered
CreateRequest ==
    \E c \in Creators, code \in Codes :
        /\ creators[c].pc = "idle"
        /\ creators' = [creators EXCEPT ![c] =
                [pc |-> IF lobby_exists(lobbies, code) THEN "conflict"
                        ELSE "check",
                 code |-> code]]
        /\ UNCHANGED <<engine, player_lobbies, stats_calls,
                       lobbies, tick_tasks, global_stats>>

\* server.rs 116-118: create_lobby_with_tick looks the code up and fails
\* when it is registered
CreateCheck ==
    \E c \in Creators :
        /\ creators[c].pc = "check"
        /\ creators' = [creators EXCEPT ![c].pc =
                IF lobby_exists(lobbies, creators[c].code) THEN "err"
                ELSE "spawn"]
        /\ UNCHANGED <<engine, player_lobbies, stats_calls,
                       lobbies, tick_tasks, global_stats>>

\* server.rs 121-134: the lobby and its channel are built and the tick
\* task is spawned
CreateSpawn ==
    \E c \in Creators :
        /\ creators[c].pc = "spawn"
        /\ tick_tasks' = tick_tasks \cup {<<creators[c].code, c>>}
        /\ creators' = [creators EXCEPT ![c].pc = "insert"]
        /\ UNCHANGED <<engine, player_lobbies, stats_calls,
                       lobbies, global_stats>>

\* server.rs 137-146: the handle is inserted and the call returns Ok
CreateInsert ==
    \E c \in Creators :
        /\ creators[c].pc = "insert"
        /\ lobbies' = insert_lobby(lobbies, creators[c].code, c)
        /\ creators' = [creators EXCEPT ![c].pc = "ok"]
        /\ UNCHANGED <<engine, player_lobbies, stats_calls,
                       tick_tasks, global_stats>>

\* destroy(code) of the lobby under study: its handle leaves the registry
\* and the command sender is dropped
DestroyMain ==
    /\ pc = "timer"
    /\ lobby_exists(lobbies, MAIN_CODE)
    /\ lobbies' = destroy(lobbies, MAIN_CODE)
    /\ UNCHANGED <<engine, player_lobbies, stats_calls,
                   tick_tasks, creators, global_stats>>

\* lobby_tick.rs 184-197, global_stats.rs 59-63: the tick task of another
\* lobby calls record_session for a player and a session; entry() takes the
\* shard lock, or_insert_with makes sure the entry is there, and the call
\* holds a reference to the totals it found
RecordEntry ==
    \E c \in Recorders, id \in StatsIds, session \in Sessions :
        /\ recorders[c].pc = "idle"
        /\ shard_granted(shard_lock)
        /\ shard_lock' = Some(c)
        /\ global_stats' = or_insert(global_stats, id)
        /\ recorders' = [recorders EXCEPT ![c] =
                [pc |-> "update", player_id |-> id, session |-> session,
                 found |-> global_stats'[id]]]
        /\ UNCHANGED <<engine, lobbies, tick_tasks, creators, player_lobbies>>

\* global_stats.rs 64-66 and 30-36: the totals are written with the session
\* added, and the reference, and with it the shard lock, is dropped
RecordUpdate ==
    \E c \in Recorders :
        /\ recorders[c].pc = "update"
        /\ global_stats' = [global_stats EXCEPT ![recorders[c].player_id] =
                add_session(recorders[c].found, recorders[c].session)]
        /\ shard_lock' = IF shard_lock = Some(c) THEN None ELSE shard_lock
        /\ recorders' = [recorders EXCEPT ![c].pc = "done"]
        /\ UNCHANGED <<engine, lobbies, tick_tasks, creators, player_lobbies>>

\* logic.rs register_kill applied during dispatch, as ApplyDamage is
\* specified to apply it
RegisterKill ==

    /\ pc = "dispatch"
    /\ \E k \in {2, ABSENT_ID}, v \in {1, ABSENT_ID} :
          /\ \A p \in DOMAIN lobby.players :
                lobby.players[p].kills < MaxKills
          /\ lobby' = register_kill(lobby, k, v, now).lobby
    /\ UNCHANGED <<registry, global_stats,
                   now, queue, pc, batch, players_left, respawn_events,
                   next_player_id, shot_log, tick_out, guards>>

\* logic.rs register_kill called with player 1 or nobody as the killer and
\* anyone, player 1 included, or nobody as the victim, for streaks up to
\* MaxStreak
RegisterKillStreak ==
    /\ pc = "dispatch"
    /\ \E k \in {1, ABSENT_ID}, v \in {1, 2, ABSENT_ID} :
          /\ Has(lobby, k) => lobby.players[k].kills < MaxStreak
          /\ lobby' = register_kill(lobby, k, v, now).lobby
          /\ lobby' # lobby
    /\ UNCHANGED <<registry, global_stats,
                   now, queue, pc, batch, players_left, respawn_events,
                   next_player_id, shot_log, tick_out, guards>>

----------------------------------------------------------------------------
(* Specifications *)

\* membership traffic: HTTP joins before the clock moves, then joins,
\* leaves, positions, heartbeats, UDP join and leave packets and inactivity
NextLobby ==
    \/ SendLobby
    \/ Admit
    \/ UdpJoin
    \/ UdpLeave
    \/ AdvanceIdle
    \/ TickDrain
    \/ TickDispatch
    \/ TickFinish
    \/ TickLoop

SpecLobby == Init /\ [][NextLobby]_vars

\* combat traffic between two players admitted over HTTP
NextCombat ==
    \/ SendCombat
    \/ Admit
    \/ AdvanceCombat
    \/ TickDrain
    \/ TickDispatch
    \/ TickFinish
    \/ TickLoop

SpecCombat == Init /\ [][NextCombat]_vars

\* combat traffic with register_kill applied
NextKill ==
    \/ SendKill
    \/ Admit
    \/ AdvanceKill
    \/ TickDrain
    \/ TickDispatch
    \/ TickFinish
    \/ TickLoop
    \/ RegisterKill

SpecKill == Init /\ [][NextKill]_vars

\* the scoring of kills between two players admitted over HTTP
NextScore ==
    \/ Admit
    \/ RegisterKillStreak
    \/ TickDrain
    \/ TickFinish
    \/ TickLoop

SpecScore == Init /\ [][NextScore]_vars

\* bursts of position updates from two players admitted over HTTP
NextCoalesce ==
    \/ Admit
    \/ SendMove
    \/ TickDrain
    \/ TickDispatch
    \/ TickFinish
    \/ TickLoop

SpecCoalesce == Init /\ [][NextCoalesce]_vars

\* a player's shots, reloads and position updates queued in any order
NextOrder ==
    \/ Admit
    \/ SendOrder
    \/ TickDrain
    \/ TickDispatch
    \/ TickFinish
    \/ TickLoop

SpecOrder == Init /\ [][NextOrder]_vars

\* a player leaves while other commands of it are in flight
NextLeave ==
    \/ Admit
    \/ SendLeave
    \/ TickDrain
    \/ TickDispatch
    \/ TickFinish
    \/ TickLoop

SpecLeave == Init /\ [][NextLeave]_vars

\* commands of every kind from a player, one between two ticks, while the
\* inactivity clock runs
NextWarn ==
    \/ Admit
    \/ (queue = << >> /\ SendLeave)
    \/ AdvanceIdle
    \/ TickDrain
    \/ TickDispatch
    \/ TickFinish
    \/ TickLoop

SpecWarn == Init /\ [][NextWarn]_vars

\* a firefight long enough to empty the magazine of the second weapon
NextEmpty ==
    \/ Admit
    \/ SendCombat
    \/ AdvanceEmpty
    \/ TickDrain
    \/ TickDispatch
    \/ TickFinish
    \/ TickLoop

SpecEmpty == Init /\ [][NextEmpty]_vars

\* players that keep shooting, reloading and switching weapon while the
\* inactivity clock runs
NextActive ==
    \/ Admit
    \/ SendCombat
    \/ AdvanceIdle
    \/ TickDrain
    \/ TickDispatch
    \/ TickFinish
    \/ TickLoop

SpecActive == Init /\ [][NextActive]_vars

\* readers of the lobby against the tick loop and the HTTP join
NextGuard ==
    \/ HttpJoin
    \/ SendMove
    \/ ReadLock
    \/ ReadUnlock
    \/ TickDrain
    \/ TickDispatch
    \/ TickFinish
    \/ TickLoop

SpecGuard == Init /\ [][NextGuard]_vars

\* inactivity supervision of two players and the bot
NextIdle ==
    \/ Admit
    \/ SendIdle
    \/ AdvanceWatch
    \/ TickDrain
    \/ TickDispatch
    \/ TickFinish
    \/ TickLoop

SpecIdle == Init /\ [][NextIdle]_vars

\* the UDP packet handlers of handlers/udp.rs against the tick loop
NextUdp ==
    \/ HttpJoin
    \/ UdpJoin
    \/ UdpLeave
    \/ UdpPosition
    \/ UdpKeepalive
    \/ AdvanceIdle
    \/ TickDrain
    \/ TickFinish
    \/ TickLoop

SpecUdp == Init /\ [][NextUdp]_vars

\* concurrent create calls against the registry
NextCreate ==
    \/ CreateRequest
    \/ CreateCheck
    \/ CreateSpawn
    \/ CreateInsert

SpecCreate == Init /\ [][NextCreate]_vars

\* the lobby under study is destroyed while its tick task runs
NextDestroy ==
    \/ Admit
    \/ SendMove
    \/ DestroyMain
    \/ TickDrain
    \/ TickDispatch
    \/ TickFinish
    \/ TickLoop

SpecDestroy == Init /\ [][NextDestroy]_vars

\* the same under a scheduler that keeps running the tick task: the
\* interval timer of the loop fires for ever
FairSpecDestroy == SpecDestroy /\ WF_vars(Tick)

\* record_session calls of several tick tasks against one stats map
NextStats ==
    \/ RecordEntry
    \/ RecordUpdate

SpecStats == Init /\ [][NextStats]_vars

\* the whole engine
Next ==
    \/ NextStats
    \/ NextCreate
    \/ NextDestroy
    \/ NextLobby
    \/ NextScore
    \/ NextCoalesce
    \/ NextGuard
    \/ NextIdle
    \/ NextCombat
    \/ NextKill
    \/ NextUdp

Spec == Init /\ [][Next]_vars

----------------------------------------------------------------------------
(* Properties: kills and respawns *)

\* C1: at the end of a tick every player whose current_health a Shoot has
\* brought to 0 is registered as killed: is_dead, respawn_time set, one
\* death counted, and a kill counted for some player of the lobby.
\* (In SpecCombat only Shoot damage lowers current_health.)
C1_KillRegistered ==
    pc = "end" =>
        \A v \in DOMAIN lobby.players :
            lobby.players[v].current_health = 0 =>
                /\ lobby.players[v].is_dead
                /\ IsSome(lobby.players[v].respawn_time)
                /\ lobby.players[v].deaths >= 1
                /\ \E k \in DOMAIN lobby.players : lobby.players[k].kills >= 1

\* C2: at the end of a tick that respawned v (the first tick with
\* now >= respawn_time), v is alive: is_dead is false, respawn_time is
\* unset, current_health = max_health and current_ammo = max_ammo.
C2_RespawnRevives ==
    pc = "end" =>
        \A v \in respawn_events \cap DOMAIN lobby.players :
            /\ ~lobby.players[v].is_dead
            /\ ~IsSome(lobby.players[v].respawn_time)
            /\ lobby.players[v].current_health = lobby.players[v].max_health
            /\ lobby.players[v].current_ammo = lobby.players[v].max_ammo

\* C3: at the end of every tick, a player is dead if and only if its
\* current_health is 0 and its respawn_time is set.
C3_DeadIffZeroHealth ==
    pc = "end" =>
        \A v \in DOMAIN lobby.players :
            lobby.players[v].is_dead <=>
                (lobby.players[v].current_health = 0
                 /\ IsSome(lobby.players[v].respawn_time))

----------------------------------------------------------------------------
(* Properties: player fields *)

\* C4: in every reachable state every player has
\* 0 <= current_health <= max_health.
C4_HealthBounds ==
    \A v \in DOMAIN lobby.players :
        /\ 0 <= lobby.players[v].current_health
        /\ lobby.players[v].current_health <= lobby.players[v].max_health

\* a tick has respawned player 1 to full health while player 2, shot three
\* times with the 50-damage weapon, stays at 0
C4_Witness ==
    /\ pc = "end"
    /\ 1 \in respawn_events
    /\ {1, 2} \subseteq DOMAIN lobby.players
    /\ lobby.players[1].current_health = lobby.players[1].max_health
    /\ lobby.players[1].deaths = 1
    /\ lobby.players[2].current_health = 0
    /\ lobby.players[1].current_ammo = lobby.players[1].max_ammo

\* C5: in every reachable state every player has
\* 0 <= current_ammo <= max_ammo.
C5_AmmoBounds ==
    \A v \in DOMAIN lobby.players :
        /\ 0 <= lobby.players[v].current_ammo
        /\ lobby.players[v].current_ammo <= lobby.players[v].max_ammo

\* player 1 has switched to the 8-round weapon and fired it
C5_Witness ==
    /\ 1 \in DOMAIN lobby.players
    /\ lobby.players[1].current_weapon_id = 2
    /\ lobby.players[1].max_ammo = WeaponDb[2].ammo
    /\ lobby.players[1].current_ammo < lobby.players[1].max_ammo
    /\ lobby.players[1].last_shot_time = now

\* C6: in every reachable state every player is reloading if and only if
\* its reload_end_time is set.
C6_ReloadFlag ==
    \A v \in DOMAIN lobby.players :
        lobby.players[v].is_reloading <=>
            IsSome(lobby.players[v].reload_end_time)

\* a tick has completed the reload of player 1: the magazine is full again
\* after a shot, and no reload is pending
C6_Witness ==
    /\ pc = "end"
    /\ 1 \in DOMAIN lobby.players
    /\ lobby.players[1].last_shot_time # UNIX_EPOCH
    /\ lobby.players[1].current_weapon_id = 1
    /\ lobby.players[1].current_ammo = lobby.players[1].max_ammo
    /\ ~lobby.players[1].is_reloading
    /\ ~lobby.players[1].is_dead

----------------------------------------------------------------------------
(* Properties: the lobby's maps *)

\* C7: in every reachable state every key of client_addresses is a key of
\* players.
C7_AddressesOfPlayers ==
    DOMAIN lobby.client_addresses \subseteq DOMAIN lobby.players

\* a tick has removed player 1, whose address was registered, while the bot
\* stays in the lobby with its address
C7_Witness ==
    /\ pc = "end"
    /\ players_left = <<1>>
    /\ 1 \notin DOMAIN lobby.players
    /\ BOT_ID \in DOMAIN lobby.client_addresses
    /\ now >= (TIMEOUT_SECS + 1) * UnitsPerSec

\* C8: at the end of every tick every key of dirty_players is a key of
\* players.
C8_DirtyOfPlayers ==
    pc = "end" => lobby.dirty_players \subseteq DOMAIN lobby.players

\* a tick in which player 1 left ends with the bot still in the lobby
C8_Witness ==
    /\ pc = "end"
    /\ players_left = <<1>>
    /\ 1 \notin DOMAIN lobby.players
    /\ BOT_ID \in DOMAIN lobby.players
    /\ lobby.dirty_players \subseteq DOMAIN lobby.players

\* C9: players.len() <= max_players in every reachable state, and a
\* PlayerJoin command or an HTTP join that meets a full lobby leaves the
\* players map unchanged.
C9_Capacity ==
    /\ [](Cardinality(DOMAIN lobby.players) <= lobby.max_players)
    /\ [][(/\ Cardinality(DOMAIN lobby.players) >= lobby.max_players
           /\ \/ next_player_id' # next_player_id
              \/ /\ pc = "dispatch"
                 /\ batch # << >>
                 /\ Head(batch).kind = "PlayerJoin")
          => lobby'.players = lobby.players]_vars

\* the lobby is full and a PlayerJoin of an id that is not in it is about to
\* be dispatched
C9_Witness ==
    /\ pc = "dispatch"
    /\ batch # << >>
    /\ Head(batch).kind = "PlayerJoin"
    /\ Head(batch).player_id \notin DOMAIN lobby.players
    /\ Cardinality(DOMAIN lobby.players) = lobby.max_players

----------------------------------------------------------------------------
(* Properties: the fire-rate gate *)

\* the shots i..j of shot_log are shots of one player with one weapon
SameBurst(i, j) ==
    \A k \in i..j :
        /\ shot_log[k].player_id = shot_log[i].player_id
        /\ shot_log[k].weapon_id = shot_log[i].weapon_id

\* ceil(dt * fire_rate) for dt in units
CeilShots(dt, fire_rate) == (dt * fire_rate + UnitsPerSec - 1) \div UnitsPerSec

----------------------------------------------------------------------------
(* Properties
   of reloading, checked under SpecCombat *)

\* player id holds a reload in progress in lobby L
Reloading(L, id) ==
    /\ Has(L, id)
    /\ L.players[id].is_reloading
    /\ IsSome(L.players[id].reload_end_time)

\* C11: a reload that starts at t0 with reload time r ends at t0 + r; while
\* it is in progress a dispatched command other than WeaponSwitch leaves
\* the reload and the ammo alone; the timer phase of a tick with
\* now < t0 + r leaves them alone too, and the timer phase of the first tick
\* with now >= t0 + r leaves current_ammo = max_ammo and is_reloading = false
C11_ReloadCompletion ==
    [][\A id \in DOMAIN lobby.players \cap DOMAIN lobby'.players :
        LET p == lobby.players[id]
            q == lobby'.players[id]
        IN
        /\ (~p.is_reloading /\ q.is_reloading) =>
              /\ p.current_weapon_id \in DOMAIN WeaponDb
              /\ q.reload_end_time =
                    Some(now + WeaponDb[p.current_weapon_id].reload_time
                                   * UnitsPerSec)
        /\ (Reloading(lobby, id) /\ pc = "dispatch" /\ pc' = "dispatch"
              /\ Head(batch).kind # "WeaponSwitch") =>
              /\ q.is_reloading
              /\ q.reload_end_time = p.reload_end_time
              /\ q.current_ammo = p.current_ammo
        /\ (Reloading(lobby, id) /\ pc = "dispatch" /\ pc' = "end") =>
              IF now >= Unwrap(p.reload_end_time)
              THEN q.current_ammo = q.max_ammo /\ ~q.is_reloading
              ELSE /\ q.is_reloading
                   /\ q.reload_end_time = p.reload_end_time
                   /\ q.current_ammo = p.current_ammo]_vars

\* a tick has ended with the magazine of weapon 1 full again after a shot:
\* only a completed reload refills it
C11_Witness ==
    /\ pc = "end"
    /\ Has(lobby, 1)
    /\ lobby.players[1].current_weapon_id = 1
    /\ lobby.players[1].last_shot_time >= 0
    /\ lobby.players[1].current_ammo = lobby.players[1].max_ammo
    /\ ~lobby.players[1].is_reloading
    /\ now >= WeaponDb[1].reload_time * UnitsPerSec

----------------------------------------------------------------------------
(* Properties
   of kill accounting, checked under SpecScore *)

\* C12: a call of register_kill for a killer k and a victim v of the lobby
\* adds exactly 1 to k's kills, exactly 1 to v's deaths and exactly
\* 100 + 25 * min(k's killstreak before the call, 5) to k's score, and
\* leaves the kills, deaths and scores of everyone else alone
C12_KillAccounting ==
    [][(pc = "dispatch" /\ pc' = "dispatch" /\ batch' = batch
            /\ lobby' # lobby) =>
        /\ DOMAIN lobby'.players = DOMAIN lobby.players
        /\ \E k \in DOMAIN lobby.players, v \in DOMAIN lobby.players :
            \A id \in DOMAIN lobby.players :
               LET p == lobby.players[id]
                   q == lobby'.players[id]
                   prior_killstreak == lobby.players[k].killstreak
                   bonus == IF prior_killstreak <= 5
                            THEN 25 * prior_killstreak ELSE 25 * 5
               IN /\ q.kills = p.kills + (IF id = k THEN 1 ELSE 0)
                  /\ q.deaths = p.deaths + (IF id = v THEN 1 ELSE 0)
                  /\ q.score = p.score + (IF id = k THEN 100 + bonus ELSE 0)
      ]_vars

\* a player has made seven kills in a row: the last one was scored with a
\* prior killstreak above the cap
C12_Witness ==
    \E id \in DOMAIN lobby.players :
        /\ lobby.players[id].killstreak = 7
        /\ lobby.players[id].kills = 7
        /\ lobby.players[id].score = 7 * 100 + 25 * (0 + 1 + 2 + 3 + 4 + 5 + 5)

----------------------------------------------------------------------------
(* Properties
   of position coalescing, checked under SpecCoalesce *)

\* the indices of the PositionUpdates of player id in q
MovesOf(q, id) ==
    {i \in 1..Len(q) : q[i].kind = "PositionUpdate" /\ q[i].player_id = id}

\* the index of the last PositionUpdate of player id in q
LastMove(q, id) ==
    CHOOSE i \in MovesOf(q, id) : \A j \in MovesOf(q, id) : j <= i

\* q without the PositionUpdates of player id that precede its last one
RECURSIVE OnlyLastFrom(_, _, _)
OnlyLastFrom(q, id, i) ==
    IF i > Len(q) THEN << >>
    ELSE IF i \in MovesOf(q, id) /\ i # LastMove(q, id)
    THEN OnlyLastFrom(q, id, i + 1)
    ELSE <<q[i]>> \o OnlyLastFrom(q, id, i + 1)

OnlyLast(q, id) == OnlyLastFrom(q, id, 1)

\* the position_update datagrams about player id in out that go to addr
MovesSent(out, id, addr) ==
    {i \in 1..Len(out) : /\ out[i].type = "position_update"
                         /\ out[i].player_id = id
                         /\ out[i].to = addr}

\* C13: whatever waits in the queue when a tick begins, for every player
\* with N >= 1 PositionUpdates in it the tick ends in the same lobby and
\* sends the same datagrams as it would with only the last of them
\* enqueued; the player then has the position and rotation of the last one
\* and every other client gets exactly one position_update about the
\* player, carrying them
C13_Coalescing ==
    pc = "timer" =>
        \A id \in DOMAIN lobby.players :
            MovesOf(queue, id) # {} =>
                LET S == run_tick(lobby, queue, now)
                    S1 == run_tick(lobby, OnlyLast(queue, id), now)
                    last == queue[LastMove(queue, id)]
                IN /\ S.lobby = S1.lobby
                   /\ S.outbox = S1.outbox
                   /\ Has(S.lobby, id)
                   /\ S.lobby.players[id].position = last.position
                   /\ S.lobby.players[id].rotation = last.rotation
                   /\ \A c \in DOMAIN S.lobby.client_addresses \ {id} :
                        /\ Cardinality(MovesSent(S.outbox, id,
                               S.lobby.client_addresses[c])) = 1
                        /\ \A i \in MovesSent(S.outbox, id,
                               S.lobby.client_addresses[c]) :
                               S.outbox[i].body =
                                   <<last.position, last.rotation>>

\* three PositionUpdates of player 1 wait in the queue, the last to a
\* place other than the first, while player 2 has an address to send to
C13_Witness ==
    /\ pc = "timer"
    /\ Has(lobby, 1)
    /\ 2 \in DOMAIN lobby.client_addresses
    /\ Cardinality(MovesOf(queue, 1)) = 3
    /\ queue[3].position # queue[1].position

----------------------------------------------------------------------------
(* Properties
   of the single writer, checked under SpecUdp *)

\* C14: the lobby changes only in the body of the tick; while the tick task
\* waits on its timer a UDP packet handler (join, leave, position_update,
\* keepalive) leaves the lobby as it is (the HTTP join, which takes a new
\* player id, is not a UDP handler and is left out)
C14_OnlyTickWrites ==
    [][(pc = "timer" /\ next_player_id' = next_player_id)
          => lobby' = lobby]_vars

----------------------------------------------------------------------------
(* Properties
   of the lobby's lock, checked under SpecGuard *)

\* C15: from the first dispatch of a tick until its clear_dirty, sends
\* included, the tick task holds the write guard, and no reader holds a
\* read guard while it does: a reader sees the lobby only as a finished
\* tick (or a producer between two ticks) left it
C15_ReadersSeeNoTick ==
    /\ pc \in {"dispatch", "end"} => write_guard
    /\ read_guards > 0 => (~write_guard /\ pc = "timer" /\ batch = << >>)

\* a reader holds a read guard on a lobby that a tick has moved player 1
\* in, while the next commands wait in the queue
C15_Witness ==
    /\ read_guards > 0
    /\ Has(lobby, 1)
    /\ lobby.players[1].position # SPAWN_POSITION
    /\ queue # << >>

----------------------------------------------------------------------------
(* Properties
   of failed commands, checked under SpecLobby *)

\* command cmd fails when it is dispatched on lobby L at time t
FailsInDispatch(L, cmd, t) ==
    \/ /\ cmd.kind = "PlayerJoin"
       /\ \/ Has(L, cmd.player_id)
          \/ Cardinality(DOMAIN L.players) >= L.max_players
    \/ cmd.kind \in {"UdpConnect", "PlayerLeave"} /\ ~Has(L, cmd.player_id)
    \/ cmd.kind = "Shoot" /\ try_shoot(L, cmd.player_id, t).res # "true"

\* C16: the dispatch of a command that fails (a PlayerJoin on a full lobby
\* or for an id that is a player, a UdpConnect or a PlayerLeave for an id
\* that is no player, a Shoot that a gate blocks) leaves the lobby as it
\* is, sends no datagram and queues no player_joined or player_left
\* broadcast for the end of the tick
C16_FailedCommandIsSilent ==
    [][(pc = "dispatch" /\ batch # << >> /\ batch' = Tail(batch)
            /\ FailsInDispatch(lobby, Head(batch), now)) =>
        /\ lobby' = lobby
        /\ outbox' = outbox
        /\ players_joined' = players_joined
        /\ players_left' = players_left]_vars

----------------------------------------------------------------------------
(* Properties
   of inactivity supervision, checked under SpecIdle *)

\* C17: when a tick has ended, no player other than the bot has been
\* silent for longer than timeout_secs, be it by less than a second: every
\* such player was removed by the tick
C17_InactiveRemoved ==
    pc = "end" =>
        \A id \in DOMAIN lobby.players \ {BOT_ID} :
            now - lobby.players[id].last_update <= TIMEOUT_SECS * UnitsPerSec

\* the datagrams of type type about player id in out
SentAbout(out, type, id) ==
    {i \in 1..Len(out) : out[i].type = type /\ out[i].player_id = id}

\* player p has been silent at time t for more than warning_fraction times
\* timeout_secs and for no more than timeout_secs
InWarningWindow(p, t) ==
    /\ (t - p.last_update) * WARNING_DEN
           > TIMEOUT_SECS * UnitsPerSec * WARNING_NUM
    /\ t - p.last_update <= TIMEOUT_SECS * UnitsPerSec

\* C18: when a tick has ended, every player other than the bot that is in
\* the warning window has warned_at set; the tick that set it has sent one
\* inactivity_warning about the player to each client, and a tick that
\* found it set has sent none
C18_WarnedOnce ==
    pc = "end" =>
        \A id \in DOMAIN lobby.players \ {BOT_ID} :
            InWarningWindow(lobby.players[id], now) =>
                /\ IsSome(lobby.players[id].warned_at)
                /\ Cardinality(SentAbout(outbox, "inactivity_warning", id)) =
                      IF lobby.players[id].warned_at = Some(now)
                      THEN Cardinality(DOMAIN lobby.client_addresses)
                      ELSE 0

\* C19: when a tick has ended, for every player that its inactivity
\* supervision has removed (the scenario has no PlayerLeave, so players_left
\* holds nobody else) the tick has sent one player_kicked about the player
\* to every client address that remains
C19_KickedBroadcast ==
    pc = "end" =>
        \A i \in 1..Len(players_left) :
            Cardinality(SentAbout(outbox, "player_kicked", players_left[i]))
                = Cardinality(DOMAIN lobby.client_addresses)

\* C20: the inactivity supervision of a tick neither removes nor warns the
\* player with id 999, however long ago its last_update is: the bot is a
\* player after the timer phase if it was one before, and its warned_at is
\* never set
C20_BotExempt ==
    /\ [](Has(lobby, BOT_ID) => lobby.players[BOT_ID].warned_at = None)
    /\ [][(pc = "dispatch" /\ pc' = "end" /\ Has(lobby, BOT_ID)) =>
            /\ Has(lobby', BOT_ID)
            /\ \A i \in 1..Len(players_left') :
                   players_left'[i] # BOT_ID]_vars

\* a tick has ended with the bot still a player, unwarned, after more than
\* timeout_secs whole seconds without any update from it
C20_Witness ==
    /\ pc = "end"
    /\ Has(lobby, BOT_ID)
    /\ as_secs(now - lobby.players[BOT_ID].last_update) > TIMEOUT_SECS
    /\ lobby.players[BOT_ID].warned_at = None

----------------------------------------------------------------------------
(* Properties
   of keep-alive traffic, checked under SpecIdle *)

\* C21: the dispatch of a Heartbeat or a PositionUpdate of a player sets
\* the player's last_update to the time of the dispatch and binds
\* client_addresses[player_id] to the command's addr, and the inactivity
\* supervision of a tick keeps every player whose last_update is less than
\* timeout_secs old: a player refreshed at shorter intervals is never
\* removed by it
C21_KeepAlive ==
    [][/\ (pc = "dispatch" /\ batch # << >> /\ batch' = Tail(batch)
            /\ Head(batch).kind \in {"Heartbeat", "PositionUpdate"}
            /\ Has(lobby, Head(batch).player_id)) =>
            /\ Has(lobby', Head(batch).player_id)
            /\ lobby'.players[Head(batch).player_id].last_update = now
            /\ Head(batch).player_id \in DOMAIN lobby'.client_addresses
            /\ lobby'.client_addresses[Head(batch).player_id]
                  = Head(batch).addr
       /\ (pc = "dispatch" /\ pc' = "end") =>
            \A id \in DOMAIN lobby.players :
                now - lobby.players[id].last_update
                    < TIMEOUT_SECS * UnitsPerSec
                  => Has(lobby', id)]_vars

\* a tick has ended more than timeout_secs whole seconds after player 1
\* joined, and player 1 is still a player, at the address of its last
\* position update
C21_Witness ==
    /\ pc = "end"
    /\ as_secs(now) > TIMEOUT_SECS
    /\ Has(lobby, 1)
    /\ lobby.players[1].last_update > 0
    /\ now - lobby.players[1].last_update < TIMEOUT_SECS * UnitsPerSec
    /\ 1 \in DOMAIN lobby.client_addresses
    /\ lobby.client_addresses[1] = "a2"

----------------------------------------------------------------------------
(* Properties
   of the lobby registry: destruction and concurrent creation *)

\* the command sender of the lobby under study has been dropped
SenderDropped == ~IsSome(get_lobby_tx(lobbies, MAIN_CODE))

\* C22: once the lobby is destroyed and its command sender dropped, the
\* tick task eventually returns from its loop
C22_TickLoopStops == SenderDropped ~> (pc = "returned")

\* C23: for every lobby code at most one create call has returned Ok and
\* at most one tick task has been spawned, and a registered handle is
\* never replaced
C23_OneCreateSucceeds ==
    [][/\ \A code \in Codes :
            /\ Cardinality({c \in Creators :
                    creators'[c].pc = "ok" /\ creators'[c].code = code}
                  \cup {t \in {MAIN_TASK} : code = MAIN_CODE}) <= 1
            /\ Cardinality({t \in tick_tasks' : t[1] = code}) <= 1
            /\ lobby_exists(lobbies, code) =>
                  lobbies'[code] = lobbies[code]]_vars

----------------------------------------------------------------------------
(* Properties
   of the UDP ingress, checked under SpecUdp *)

\* C24: handling an inbound UDP packet never waits on the lobby's tick:
\* a position packet of a player of the lobby can be handled while the
\* tick task is inside its tick, and handling it hands a command to the
\* lobby's queue
C24_UdpNeverWaits ==
    (Has(lobby, 1) /\ write_guard) => ENABLED UdpPosition

----------------------------------------------------------------------------
(* Properties
   of the global stats *)

\* C25: the tick that removes a player of the lobby records exactly one
\* session for that player in the global stats, carrying the kills, deaths
\* and score the player had (here for the removal at the end of the tick,
\* by inactivity supervision)
C25_SessionRecorded ==
    [][(pc = "dispatch" /\ pc' = "end") =>
          \A id \in DOMAIN lobby.players \ DOMAIN lobby'.players :
              /\ id \in DOMAIN global_stats'
              /\ global_stats'[id] =
                    record_session(global_stats, id,
                                   lobby.players[id].kills,
                                   lobby.players[id].deaths,
                                   lobby.players[id].score)[id]]_vars

----------------------------------------------------------------------------
(* Properties
   of the order of dispatch, checked under SpecOrder *)

\* the commands of q that are not position updates, in the order of q
OtherCommands(q) == SelectSeq(q, LAMBDA c : c.kind # "PositionUpdate")

\* C26: the commands other than PositionUpdate of a drained batch stand in
\* the order in which they were enqueued, and the dispatch loop applies
\* the batch front to back, one command after the other: a Shoot and a
\* Reload of one player take effect in arrival order
C26_ArrivalOrder ==
    [][/\ (pc = "timer" /\ pc' = "dispatch") =>
            OtherCommands(batch') = OtherCommands(queue)
       /\ (pc = "dispatch" /\ pc' = "dispatch") =>
            /\ batch # << >>
            /\ batch' = Tail(batch)
            /\ lobby' = process_command(lobby, Head(batch), now)]_vars

\* a tick has drained a position update, a Shoot and a Reload of player 1
\* and is about to dispatch them: the Shoot stands before the Reload
C26_Witness ==
    /\ pc = "dispatch"
    /\ Has(lobby, 1)
    /\ Has(lobby, 2)
    /\ batch = <<PositionUpdate(1, "10,5,20", "0,1,0", "a1"), Shoot(1, 2),
                 Reload(1)>>

----------------------------------------------------------------------------
(* Properties
   of a departure, checked under SpecLeave *)

\* player p is in none of players, client_addresses and last_sync_state
Gone(L, p) ==
    /\ ~Has(L, p)
    /\ p \notin DOMAIN L.client_addresses
    /\ p \notin DOMAIN L.last_sync_state

\* the ids pushed to players_left so far in this tick
HasLeft == {players_left[i] : i \in DOMAIN players_left}

\* C27: the dispatch of PlayerLeave{p} takes p out of players,
\* client_addresses and last_sync_state; every command of p dispatched
\* later in the batch (PositionUpdate, Shoot, Reload, WeaponSwitch,
\* Heartbeat, UdpConnect) leaves players and client_addresses, and so
\* every other player's fields, unchanged and p out of all three; and the
\* rest of the tick keeps p out of them
C27_DepartedStaysOut ==
    [][/\ (pc = "dispatch" /\ pc' = "dispatch"
            /\ Head(batch).kind = "PlayerLeave") =>
            Gone(lobby', Head(batch).player_id)
       /\ (pc = "dispatch" /\ pc' = "dispatch"
            /\ Head(batch).kind \in {"PositionUpdate", "Shoot", "Reload",
                                     "WeaponSwitch", "Heartbeat",
                                     "UdpConnect"}
            /\ Head(batch).player_id \in HasLeft
            /\ Gone(lobby, Head(batch).player_id)) =>
            /\ lobby'.players = lobby.players
            /\ lobby'.client_addresses = lobby.client_addresses
            /\ Gone(lobby', Head(batch).player_id)
       /\ (pc = "dispatch" /\ pc' = "end") =>
            \A p \in HasLeft : Gone(lobby, p) => Gone(lobby', p)]_vars

\* PlayerLeave{1} has been dispatched in this tick, player 1 is gone, and
\* a Shoot of player 1 at player 2 is the next command of the batch
C27_Witness ==
    /\ pc = "dispatch"
    /\ players_left = <<1>>
    /\ Gone(lobby, 1)
    /\ Has(lobby, 2)
    /\ batch = <<Shoot(1, 2)>>

----------------------------------------------------------------------------
(* Properties
   of weapon switches and shots, checked under SpecCombat *)

\* C28: the dispatch of a WeaponSwitch{p, w} of a player p for a weapon w
\* of the database leaves p with current_weapon_id = w, current_ammo =
\* max_ammo = the magazine size of w, is_reloading = FALSE and no reload
\* end time; and the timers of a tick change the ammo of no player that is
\* not reloading, so a reload cancelled by the switch never refills
C28_SwitchCancelsReload ==
    [][/\ (pc = "dispatch" /\ pc' = "dispatch"
            /\ Head(batch).kind = "WeaponSwitch"
            /\ Has(lobby, Head(batch).player_id)
            /\ Head(batch).weapon_id \in DOMAIN WeaponDb) =>
            LET p == lobby'.players[Head(batch).player_id]
                w == Head(batch).weapon_id
            IN /\ p.current_weapon_id = w
               /\ p.current_ammo = WeaponDb[w].ammo
               /\ p.max_ammo = WeaponDb[w].ammo
               /\ ~p.is_reloading
               /\ p.reload_end_time = None
       /\ (pc = "dispatch" /\ pc' = "end") =>
            \A id \in DOMAIN lobby.players :
                ~lobby.players[id].is_reloading =>
                    /\ Has(lobby', id)
                    /\ lobby'.players[id].current_ammo
                          = lobby.players[id].current_ammo
                    /\ lobby'.players[id].max_ammo
                          = lobby.players[id].max_ammo
                    /\ ~lobby'.players[id].is_reloading]_vars

\* a WeaponSwitch of player 1 is about to be dispatched while a reload of
\* player 1 is in progress
C28_Witness ==
    /\ pc = "dispatch"
    /\ batch # << >>
    /\ Head(batch) = WeaponSwitch(1, 2)
    /\ Has(lobby, 1)
    /\ lobby.players[1].is_reloading
    /\ lobby.players[1].current_weapon_id = 1

\* the three gates of try_shoot for player id of lobby L at time t: the
\* player is reloading, has an empty magazine, or fired its last shot less
\* than 1/fire_rate ago
Blocked(L, id, t) ==
    \/ L.players[id].is_reloading
    \/ L.players[id].current_ammo = 0
    \/ /\ t >= L.players[id].last_shot_time
       /\ too_soon(t - L.players[id].last_shot_time,
                   WeaponDb[L.players[id].current_weapon_id].fire_rate)

\* C29: the dispatch of a Shoot of a player that is reloading, has
\* current_ammo = 0 or fired less than 1/fire_rate ago changes nothing in
\* the lobby: the shooter's current_ammo and last_shot_time, the target's
\* current_health and dirty_players are as before
C29_BlockedShot ==
    [][(pc = "dispatch" /\ pc' = "dispatch"
        /\ Head(batch).kind = "Shoot"
        /\ Has(lobby, Head(batch).player_id)
        /\ Blocked(lobby, Head(batch).player_id, now)) =>
            lobby' = lobby]_vars

\* a Shoot of player 1 at player 2 is about to be dispatched and only the
\* empty magazine of player 1 stands against it
C29_Witness ==
    /\ pc = "dispatch"
    /\ batch # << >>
    /\ Head(batch) = Shoot(1, 2)
    /\ Has(lobby, 1)
    /\ Has(lobby, 2)
    /\ lobby.players[1].current_ammo = 0
    /\ ~lobby.players[1].is_reloading
    /\ ~too_soon(now - lobby.players[1].last_shot_time,
                 WeaponDb[lobby.players[1].current_weapon_id].fire_rate)

\* C30: the dispatch of a Shoot of a player that no gate blocks takes
\* exactly one round from the shooter's current_ammo, sets last_shot_time
\* to the time of the dispatch, marks the shooter dirty and, when the
\* target is a player of the lobby, lowers the target's current_health by
\* the damage of the shooter's weapon, stopping at 0; when the target is
\* not in the lobby the round is spent all the same and nobody else
\* changes
C30_ShotFired ==
    [][(pc = "dispatch" /\ pc' = "dispatch"
        /\ Head(batch).kind = "Shoot"
        /\ Has(lobby, Head(batch).player_id)
        /\ ~Blocked(lobby, Head(batch).player_id, now)) =>
            LET s == Head(batch).player_id
                g == Head(batch).target_id
                damage == WeaponDb[lobby.players[s].current_weapon_id].damage
            IN /\ lobby'.players[s].current_ammo
                    = lobby.players[s].current_ammo - 1
               /\ lobby'.players[s].last_shot_time = now
               /\ s \in lobby'.dirty_players
               /\ Has(lobby, g) =>
                    /\ lobby'.players[g].current_health
                          = IF lobby.players[g].current_health > damage
                            THEN lobby.players[g].current_health - damage
                            ELSE 0
                    /\ g \in lobby'.dirty_players
               /\ ~Has(lobby, g) =>
                    /\ DOMAIN lobby'.players = DOMAIN lobby.players
                    /\ \A id \in DOMAIN lobby.players \ {s} :
                          lobby'.players[id] = lobby.players[id]]_vars

\* player 1, alone in the lobby, has just spent a round on a target that
\* is not there
C30_Witness ==
    /\ pc = "dispatch"
    /\ Has(lobby, 1)
    /\ ~Has(lobby, 2)
    /\ lobby.players[1].current_ammo = lobby.players[1].max_ammo - 1
    /\ lobby.players[1].last_shot_time = now
    /\ 1 \in lobby.dirty_players
    /\ Len(shot_log) > 0

\* C31: the dispatch of a Reload of a player that is already reloading or
\* has a full magazine changes nothing in the lobby: is_reloading,
\* reload_end_time and current_ammo stay as they are, so a Reload repeated
\* during a reload does not postpone its completion
C31_ReloadRefused ==
    [][(pc = "dispatch" /\ pc' = "dispatch"
        /\ Head(batch).kind = "Reload"
        /\ Has(lobby, Head(batch).player_id)
        /\ \/ lobby.players[Head(batch).player_id].is_reloading
           \/ lobby.players[Head(batch).player_id].current_ammo
                 = lobby.players[Head(batch).player_id].max_ammo) =>
            lobby' = lobby]_vars

\* a Reload of player 1 is about to be dispatched while an earlier reload
\* of player 1, begun at an earlier time, is in progress
C31_Witness ==
    /\ pc = "dispatch"
    /\ batch # << >>
    /\ Head(batch) = Reload(1)
    /\ Has(lobby, 1)
    /\ lobby.players[1].is_reloading
    /\ IsSome(lobby.players[1].reload_end_time)
    /\ Unwrap(lobby.players[1].reload_end_time)
          < now + reload_duration(WeaponDb[lobby.players[1].current_weapon_id])

----------------------------------------------------------------------------
(* Properties
   of the routing index, checked under SpecLobby *)

\* C32: a player removed by inactivity supervision is afterwards as absent
\* as a player removed by PlayerLeave: in none of players,
\* client_addresses and last_sync_state, and routed to no lobby by the
\* registry
C32_RemovalLikeLeave ==
    [][/\ (pc = "dispatch" /\ pc' = "dispatch"
            /\ Head(batch).kind = "PlayerLeave") =>
            /\ Gone(lobby', Head(batch).player_id)
            /\ Head(batch).player_id \notin DOMAIN player_lobbies'
       /\ (pc = "dispatch" /\ pc' = "end") =>
            \A id \in DOMAIN lobby.players \ DOMAIN lobby'.players :
                /\ Gone(lobby', id)
                /\ id \notin DOMAIN player_lobbies']_vars

----------------------------------------------------------------------------
(* Properties
   of activity, checked under SpecActive *)

\* C33: a Shoot, Reload or WeaponSwitch processed for a player counts as
\* activity: its dispatch sets the player's last_update to the time of the
\* dispatch, and inactivity supervision removes no player that fired a
\* shot within the last timeout_secs
C33_CombatIsActivity ==
    [][/\ (pc = "dispatch" /\ pc' = "dispatch"
            /\ Head(batch).kind \in {"Shoot", "Reload", "WeaponSwitch"}
            /\ Has(lobby, Head(batch).player_id)) =>
            lobby'.players[Head(batch).player_id].last_update = now
       /\ (pc = "dispatch" /\ pc' = "end") =>
            \A id \in DOMAIN lobby.players \ DOMAIN lobby'.players :
                as_secs(now - lobby.players[id].last_shot_time)
                    > TIMEOUT_SECS]_vars

----------------------------------------------------------------------------
(* Properties
   of killstreaks, checked under SpecScore *)

\* C34: for all players k and v of the lobby, after register_kill(k, v)
\* the killstreak of k is its killstreak before the call plus 1 and equals
\* the killer_new_killstreak of the returned KillEvent, and the killstreak
\* of v is 0
C34_Killstreaks ==
    \A k \in DOMAIN lobby.players, v \in DOMAIN lobby.players :
        LET r == register_kill(lobby, k, v, now) IN
        r.ok =>
            /\ r.lobby.players[k].killstreak = lobby.players[k].killstreak + 1
            /\ r.lobby.players[k].killstreak = r.killstreak
            /\ r.lobby.players[v].killstreak = 0

----------------------------------------------------------------------------
(* Properties
   of concurrent sessions, checked under SpecStats *)

\* the record_session calls for player id that have returned
Recorded(id) ==
    {c \in Recorders : recorders[c].pc = "done" /\ recorders[c].player_id = id}

\* the sum over the calls cs of one field of their sessions
RECURSIVE SumOf(_, _)
SumOf(cs, field) ==
    IF cs = {} THEN 0
    ELSE LET c == CHOOSE x \in cs : TRUE
         IN recorders[c].session[field] + SumOf(cs \ {c}, field)

\* C35: whatever the interleaving of the record_session calls of several
\* tick tasks, no update is lost: once no call is in progress, the stored
\* total_kills, total_deaths and total_score of every player are the sums
\* over the calls made for it and games_played is the number of calls
C35_NoLostSession ==
    (\A c \in Recorders : recorders[c].pc # "update") =>
        \A id \in StatsIds :
            /\ Recorded(id) = {} => id \notin DOMAIN global_stats
            /\ Recorded(id) # {} =>
                /\ id \in DOMAIN global_stats
                /\ global_stats[id].total_kills = SumOf(Recorded(id), "kills")
                /\ global_stats[id].total_deaths
                      = SumOf(Recorded(id), "deaths")
                /\ global_stats[id].total_score = SumOf(Recorded(id), "score")
                /\ global_stats[id].games_played = Cardinality(Recorded(id))

\* every tick task has recorded a session for player 1, each waiting for
\* the shard lock in its turn
C35_Witness ==
    /\ \A c \in Recorders :
          recorders[c].pc = "done" /\ recorders[c].player_id = 1
    /\ global_stats[1].games_played = MaxRecorders
    /\ shard_lock = None

----------------------------------------------------------------------------
(* Properties
   of death and respawn, checked under SpecKill *)

\* C36: a dead player is respawned once per death: every player a tick
\* respawns (position, health and ammo reset, player_respawned emitted) is
\* at 0 health since its death, none has been respawned already
C36_RespawnOnce ==
    [][(pc = "dispatch" /\ pc' = "end") =>
          \A id \in respawn_events' :
              /\ Has(lobby, id)
              /\ lobby.players[id].current_health = 0]_vars

\* C37: a dead player never completes a Shoot: the dispatch of a Shoot of
\* a player that is at 0 health, killed and not yet respawned, takes no
\* round from its magazine and damages nobody
C37_DeadCannotShoot ==
    [][(pc = "dispatch" /\ pc' = "dispatch" /\ batch # << >>
        /\ batch' = Tail(batch)
        /\ Head(batch).kind = "Shoot"
        /\ Has(lobby, Head(batch).player_id)
        /\ lobby.players[Head(batch).player_id].is_dead
        /\ lobby.players[Head(batch).player_id].current_health = 0) =>
            /\ lobby'.players[Head(batch).player_id].current_ammo
                  = lobby.players[Head(batch).player_id].current_ammo
            /\ \A id \in DOMAIN lobby.players :
                  lobby'.players[id].current_health
                    = lobby.players[id].current_health]_vars

\* C38: after every tick, is_player_alive holds of a player of the lobby
\* exactly when its is_dead flag is false.
C38_AliveIffNotDead ==
    pc = "end" =>
        \A id \in DOMAIN lobby.players :
            is_player_alive(lobby, id) <=> ~lobby.players[id].is_dead

\* the ids a register_kill call is tried with: the players the lobby can
\* hold and one id it never holds
KillIds == (1..MaxPlayers) \cup {ABSENT_ID}

\* C39: register_kill(k, v) with k or v not in the lobby returns an error
\* and leaves the whole lobby unchanged: the fields of every player and the
\* dirty set are as before the call
C39_MissingPlayerRefused ==
    \A k \in KillIds, v \in KillIds :
        (~Has(lobby, k) \/ ~Has(lobby, v)) =>
            /\ ~register_kill(lobby, k, v, now).ok
            /\ register_kill(lobby, k, v, now).lobby = lobby

\* a lobby that holds a killer with a kill on its record and a clean dirty
\* set, for which register_kill against an absent victim is refused
C39_Witness ==
    /\ Has(lobby, 1)
    /\ lobby.players[1].kills > 0
    /\ lobby.dirty_players = {}
    /\ ~Has(lobby, ABSENT_ID)
    /\ ~register_kill(lobby, 1, ABSENT_ID, now).ok

----------------------------------------------------------------------------
(* Properties
   of the inactivity warning, checked under SpecWarn *)

\* C40: the warned_at of a player that stays in the lobby, once set, is
\* changed by no command and no tick phase; it is set only by the cleanup
\* of a tick, to the time of that tick, which is the one time
\* cleanup_inactive reports the player as warned
C40_WarnedAtKept ==
    [][\A id \in DOMAIN lobby.players \cap DOMAIN lobby'.players :
          /\ IsSome(lobby.players[id].warned_at) =>
                lobby'.players[id].warned_at = lobby.players[id].warned_at
          /\ lobby'.players[id].warned_at # lobby.players[id].warned_at =>
                /\ pc = "dispatch" /\ pc' = "end"
                /\ lobby'.players[id].warned_at = Some(now)]_vars

\* a tick has ended for a player that was warned, was active again after
\* the warning and has since been silent past the warning threshold: its
\* warned_at is still the time of the first warning
C40_Witness ==
    /\ pc = "end"
    /\ Has(lobby, 1)
    /\ IsSome(lobby.players[1].warned_at)
    /\ lobby.players[1].last_update >= lobby.players[1].warned_at[1]
    /\ as_secs(now - lobby.players[1].last_update)
           > warning_threshold(TIMEOUT_SECS)
    /\ lobby.players[1].warned_at[1] < now

============================================================================
